---- MODULE Spec2Model ----
(***************************************************************************)
(* Model of the DearJack audio engine (src/src/main.cpp): the ThreadManager *)
(* worker pool and the JackClient endpoint lifecycle against the JACK       *)
(* server.                                                                 *)
(***************************************************************************)
EXTENDS Integers, Sequences, FiniteSets, TLC

\* ---------------------------------------------------------------- bounds
\* largest num_threads handed to ThreadManager::init
MaxThreads == 2
\* number of run_task calls made over a run
MaxTasks == 3
\* the same two bounds for the runs checked under fairness
LiveThreads == 2
LiveTasks == 2
\* number of "Add JackClient" presses over a run
MaxClients == 1
\* largest number of inputs, and of outputs, a DSP node reports
MaxPorts == 1

\* the control threads that call run_task
Submitters == {"s1", "s2"}

\* ---- the nodes
\* the voices of a PolyphonicDSP (main passes 8)
NumVoices == 2
\* nframes: the frames of one process cycle
BufferFrames == 2

\* Numbers. A double is an integer; a float is a double that is a multiple of
\* FloatUlp. Frequencies are in units of 110 Hz, amplitudes and samples in
\* units of 0.25, phases in quarter turns.
FloatUlp == 2
TWO_PI == 4
DEFAULT_FREQUENCY == 4
DEFAULT_AMPLITUDE == 2
\* jack_get_sample_rate(client), in the unit of the frequencies (880 Hz)
SampleRate == 8
\* M_PI, half a turn
M_PI == 2
\* 1.0f in the unit of the samples
One == 4
\* the phases looked at: a phase that has left this range is followed no further
MaxPhase == 6

\* float -> double: every float is a double
ToDouble(f) == f
\* a float format with half the precision
ToFloat_coarse(d) == (d \div (FloatUlp + FloatUlp)) * (FloatUlp + FloatUlp)
\* double -> float: the nearest float at or below it
ToFloat(d) == (d \div FloatUlp) * FloatUlp

\* std::sin at a whole number of quarter turns
Sin(p) == CASE p % 4 = 0 -> 0 [] p % 4 = 1 -> 1 [] p % 4 = 2 -> 0 [] OTHER -> -1

VARIABLES
    \* ---- ThreadManager (main.cpp:393-397)
    threads,          \* std::vector<std::thread>: the workers spawned, in order
    tasks,            \* std::queue<std::function<void()>>
    tasks_mutex,      \* std::mutex: its holder, or NoThread
    quit_flag,        \* bool
    \* ---- threads of control
    num_threads,      \* the argument of init
    mpc, mi,          \* the host thread: position, loop index
    wpc, wtask,       \* each worker: position, the task it holds
    spc, stask,       \* each submitter: position, the task it submits
    terminate_called, \* std::terminate ran: the process is gone
    \* ---- history
    nextTask,         \* the next fresh task id
    enqueued,         \* tasks in the order of their push
    dequeued,         \* tasks in the order of their pop
    executed,         \* how many times each task was invoked
    enqAtShutdown,    \* Len(enqueued) when shutdown() took the lock, -1 before
    late              \* tasks whose run_task call began after shutdown() returned

poolVars == <<threads, tasks, tasks_mutex, quit_flag, num_threads, mpc, mi,
              wpc, wtask, spc, stask, terminate_called, nextTask, enqueued,
              dequeued, executed, enqAtShutdown, late>>

VARIABLES
    \* ---- the host's control thread (main.cpp:594, 631-646)
    jack_clients,     \* std::vector<std::unique_ptr<JackClient>>: endpoint ids
    client_count,     \* static int client_count
    hpc,              \* the control thread's position
    cur,              \* the endpoint whose constructor runs, 0 if none
    \* ---- JackClient (main.cpp:463-467), one per endpoint id
    obj,              \* the object's lifetime
    client,           \* jack_client_t *client: "handle" or "null"
    num_inputs, num_outputs,
    input_ports,      \* std::vector<jack_port_t *>: "port" or "null" each
    output_ports,
    cbpc, cbi,        \* the audio thread inside process(): position, port index
    \* ---- the JACK server's side of each connection
    srv_state,        \* "none", "open", "active", "closed", "shutdown"
    srv_calls,        \* the calls the constructor and destructor made, in order
    srv_closes,       \* how many times jack_client_close was called
    srv_in_cycle,     \* the server is inside a process cycle of the connection
    gb_outside,       \* a jack_port_get_buffer call arrived outside a cycle
    failure           \* what the server refused during construction

epVars == <<jack_clients, client_count, hpc, cur, obj, client, num_inputs,
            num_outputs, input_ports, output_ports, cbpc, cbi, srv_state,
            srv_calls, srv_closes, srv_in_cycle, gb_outside, failure>>

VARIABLES
    \* ---- the node an Endpoint drives (JackClient::dsp)
    dsp_kind,         \* its dynamic type: "none", "SinOsc", "SquareWave",
                      \* "SawWave" or "PolyphonicDSP"
    voices,           \* PolyphonicDSP::voices: "SinOsc" or "null" each; a
                      \* node that is itself a SinOsc is voice 1
    mutex_,           \* PolyphonicDSP::mutex_: the thread that holds it
    \* ---- SinOsc members, one of each per voice
    frequency,        \* std::atomic<double> frequency
    amplitude,        \* std::atomic<float> amplitude
    phase,            \* double phase
    \* ---- the audio thread inside process_audio
    apc,              \* its position
    av,               \* the voice PolyphonicDSP::process_audio has reached
    ai,               \* the sample index i of SinOsc::process_audio's loop
    phase_increment, amp, local_phase,   \* SinOsc::process_audio's locals
    mixed_output,     \* PolyphonicDSP::process_audio's scratch vector
    outputs,          \* outputs[0]: the port's buffer for this cycle
    \* ---- the control thread inside set_parameter / get_parameter
    cpc, cv, cname, cvalue, cresult,
    \* ---- what this buffer was rendered from, and the last completed set
    voice_out,        \* per voice, the samples it wrote in this buffer
    used,             \* per voice, the <<increment, amplitude>> of each sample
    loads,            \* per voice, how often frequency and amplitude were loaded
    last_set,         \* <<name, value>> of the set_parameter that returned last
    allocs,           \* heap allocations the audio thread made in this call
    nframes,          \* the frame count process_audio was called with
    run               \* the samples rendered since the last parameter write

dspVars == <<dsp_kind, voices, mutex_, frequency, amplitude, phase, apc, av, ai,
             phase_increment, amp, local_phase, mixed_output, outputs, cpc, cv,
             cname, cvalue, cresult, voice_out, used, loads, last_set, allocs,
             nframes, run>>

VARIABLES
    \* ---- DSPFactory and main's "Add JackClient"
    creators,         \* DSPFactory::creators: type name -> constructor closure
    rpc,              \* the control thread's position in main / the constructor
    rname,            \* the name passed to create_dsp (main's selected_dsp_type)
    rk,               \* the voice PolyphonicDSP's constructor has reached
    num_voices,       \* the constructor's argument
    poly_obj,         \* the PolyphonicDSP object's lifetime
    created,          \* what the last create_dsp call came to, and
    last_invoked,     \* the closures it invoked (since the last register_dsp)
    registered,       \* the register_dsp calls so far: <<name, closure>> each
    dsp_names         \* what the last get_registered_dsps call returned

regVars == <<creators, rpc, rname, rk, num_voices, poly_obj, created,
             last_invoked, registered, dsp_names>>

VARIABLES
    \* ---- threads that call the registry at the same time
    factory_mutex,    \* DSPFactory::mutex_: the thread that holds it
    rthr              \* per thread: its position in the call, the call's
                      \* arguments, locals and result

facVars == <<factory_mutex, rthr>>

nodeVars == <<dspVars, regVars, facVars>>

vars == <<poolVars, epVars, nodeVars>>

\* ------------------------------------------------------------ thread ids
NoThread == <<"none", 0>>
MainThread == <<"main", 0>>
AudioThread == <<"audio", 0>>
RegistryThread(t) == <<"registry", t>>
WorkerThread(w) == <<"worker", w>>
SubmitThread(s) == <<"submit", s>>

Workers == DOMAIN wpc
Waiting == {w \in Workers : wpc[w] = "waiting"}

\* condition_variable::notify_one: one of the waiting workers, if any, goes
\* back to reacquire the mutex; with none waiting it does nothing
NotifyOne ==
    IF Waiting = {} THEN {wpc} ELSE {[wpc EXCEPT ![w] = "lock"] : w \in Waiting}

\* condition_variable::notify_all
NotifyAll == [w \in Workers |-> IF wpc[w] = "waiting" THEN "lock" ELSE wpc[w]]

\* the threads that call the registry at the same time
RegThreads == 2

\* a thread outside every DSPFactory member function
IdleCall ==
    [pc |-> "idle", op |-> "none", name |-> "", creator |-> "",
     out |-> <<>>, result |-> <<"none">>]

\* ------------------------------------------------------------------ Init
PoolInit(maxThreads, maxTasks) ==
    /\ threads = <<>>
    /\ tasks = <<>>
    /\ tasks_mutex = NoThread
    /\ quit_flag = FALSE
    /\ num_threads \in 0..maxThreads
    /\ mpc = "start"
    /\ mi = 0
    /\ wpc = [w \in 1..maxThreads |-> "unborn"]
    /\ wtask = [w \in 1..maxThreads |-> 0]
    /\ spc = [s \in Submitters |-> "idle"]
    /\ stask = [s \in Submitters |-> 0]
    /\ terminate_called = FALSE
    /\ nextTask = 1
    /\ enqueued = <<>>
    /\ dequeued = <<>>
    /\ executed = [t \in 1..maxTasks |-> 0]
    /\ enqAtShutdown = -1
    /\ late = {}

EndpointInit ==
    /\ jack_clients = <<>>
    /\ client_count = 1
    /\ hpc = "idle"
    /\ cur = 0
    /\ obj = [e \in 1..MaxClients |-> "none"]
    /\ client = [e \in 1..MaxClients |-> "null"]
    /\ num_inputs = [e \in 1..MaxClients |-> 0]
    /\ num_outputs = [e \in 1..MaxClients |-> 0]
    /\ input_ports = [e \in 1..MaxClients |-> <<>>]
    /\ output_ports = [e \in 1..MaxClients |-> <<>>]
    /\ cbpc = [e \in 1..MaxClients |-> "idle"]
    /\ cbi = [e \in 1..MaxClients |-> 0]
    /\ srv_state = [e \in 1..MaxClients |-> "none"]
    /\ srv_calls = [e \in 1..MaxClients |-> <<>>]
    /\ srv_closes = [e \in 1..MaxClients |-> 0]
    /\ srv_in_cycle = [e \in 1..MaxClients |-> FALSE]
    /\ gb_outside = [e \in 1..MaxClients |-> FALSE]
    /\ failure = [e \in 1..MaxClients |-> "none"]

\* SquareWave and SawWave: a phase and a frequency, no amplitude
WaveKinds == {"SquareWave", "SawWave"}

\* SinOsc::SinOsc (SquareWave::SquareWave, SawWave::SawWave) for each voice,
\* and both threads outside the node
\* the record of the samples rendered since the last parameter write, which a
\* specification keeps only where it switches it on: the phase the first of
\* these buffers started from and the samples of all of them; cut is set by a
\* parameter write, and the next call of process_audio starts a record anew
NoRun == [on |-> FALSE, cut |-> FALSE, start |-> 0, out |-> <<>>]
\* the samples a record holds at most
MaxRun == 4

NodeFields(kind, n) ==
    /\ dsp_kind = kind
    /\ voices = [v \in 1..n |-> "SinOsc"]
    /\ mutex_ = NoThread
    /\ frequency = [v \in 1..n |-> ToDouble(DEFAULT_FREQUENCY)]
    /\ amplitude = IF kind \in WaveKinds THEN <<>>
                   ELSE [v \in 1..n |-> DEFAULT_AMPLITUDE]
    /\ phase = [v \in 1..n |-> 0]
    /\ apc = "idle"
    /\ av = 0
    /\ ai = 0
    /\ phase_increment = 0
    /\ amp = 0
    /\ local_phase = 0
    /\ mixed_output = <<>>
    /\ outputs = <<>>
    /\ cpc = "idle"
    /\ cv = 0
    /\ cname = ""
    /\ cvalue = <<"float", 0>>
    /\ cresult = <<"none", 0>>
    /\ voice_out = [v \in 1..n |-> <<>>]
    /\ used = [v \in 1..n |-> <<>>]
    /\ loads = [v \in 1..n |-> <<0, 0>>]
    /\ last_set = <<>>
    /\ allocs = 0

\* a node as its constructor leaves it, no buffer rendered yet
DspInit(kind, n) ==
    /\ NodeFields(kind, n)
    /\ nframes = 0
    /\ run = NoRun

\* DSPFactory's construction: no type registered; main before any click
RegInit ==
    /\ creators = <<>>
    /\ rpc = "idle"
    /\ rname = ""
    /\ rk = 0
    /\ num_voices = 0
    /\ poly_obj = "none"
    /\ created = <<"none">>
    /\ last_invoked = <<>>
    /\ registered = <<>>
    /\ dsp_names = <<"none">>
    /\ factory_mutex = NoThread
    /\ rthr = [t \in 1..RegThreads |-> IdleCall]

\* no node: the pool and the endpoints are looked at without one
NodeInit == DspInit("none", 0) /\ RegInit

Init == PoolInit(MaxThreads, MaxTasks) /\ EndpointInit /\ NodeInit

\* ------------------------------------------------- ThreadManager::init
init_enter ==
    /\ ~terminate_called
    /\ mpc = "start"
    /\ quit_flag' = FALSE
    /\ mi' = 0
    /\ mpc' = "init_loop"
    /\ UNCHANGED <<threads, tasks, tasks_mutex, num_threads, wpc, wtask, spc,
                   stask, terminate_called, nextTask, enqueued, dequeued,
                   executed, enqAtShutdown, late>>
    /\ UNCHANGED <<epVars, nodeVars>>

init_spawn ==
    /\ ~terminate_called
    /\ mpc = "init_loop"
    /\ mi < num_threads
    /\ threads' = Append(threads, mi + 1)
    /\ wpc' = [wpc EXCEPT ![mi + 1] = "lock"]
    /\ mi' = mi + 1
    /\ UNCHANGED <<tasks, tasks_mutex, quit_flag, num_threads, mpc, wtask, spc,
                   stask, terminate_called, nextTask, enqueued, dequeued,
                   executed, enqAtShutdown, late>>
    /\ UNCHANGED <<epVars, nodeVars>>

init_return ==
    /\ ~terminate_called
    /\ mpc = "init_loop"
    /\ mi >= num_threads
    /\ mpc' = "running"
    /\ UNCHANGED <<threads, tasks, tasks_mutex, quit_flag, num_threads, mi, wpc,
                   wtask, spc, stask, terminate_called, nextTask, enqueued,
                   dequeued, executed, enqAtShutdown, late>>
    /\ UNCHANGED <<epVars, nodeVars>>

\* --------------------------------------------- ThreadManager::shutdown
shutdown_lock ==
    /\ ~terminate_called
    /\ mpc = "running"
    /\ tasks_mutex = NoThread
    /\ tasks_mutex' = MainThread
    /\ mpc' = "sd_locked"
    /\ enqAtShutdown' = Len(enqueued)
    /\ UNCHANGED <<threads, tasks, quit_flag, num_threads, mi, wpc, wtask, spc,
                   stask, terminate_called, nextTask, enqueued, dequeued,
                   executed, late>>
    /\ UNCHANGED <<epVars, nodeVars>>

shutdown_set_quit ==
    /\ ~terminate_called
    /\ mpc = "sd_locked"
    /\ quit_flag' = TRUE
    /\ tasks_mutex' = NoThread
    /\ mpc' = "sd_notify"
    /\ UNCHANGED <<threads, tasks, num_threads, mi, wpc, wtask, spc, stask,
                   terminate_called, nextTask, enqueued, dequeued, executed,
                   enqAtShutdown, late>>
    /\ UNCHANGED <<epVars, nodeVars>>

shutdown_notify_all ==
    /\ ~terminate_called
    /\ mpc = "sd_notify"
    /\ wpc' = NotifyAll
    /\ mi' = 0
    /\ mpc' = "sd_join"
    /\ UNCHANGED <<threads, tasks, tasks_mutex, quit_flag, num_threads, wtask,
                   spc, stask, terminate_called, nextTask, enqueued, dequeued,
                   executed, enqAtShutdown, late>>
    /\ UNCHANGED <<epVars, nodeVars>>

shutdown_join ==
    /\ ~terminate_called
    /\ mpc = "sd_join"
    /\ mi < Len(threads)
    /\ wpc[threads[mi + 1]] = "exited"
    /\ mi' = mi + 1
    /\ UNCHANGED <<threads, tasks, tasks_mutex, quit_flag, num_threads, mpc, wpc,
                   wtask, spc, stask, terminate_called, nextTask, enqueued,
                   dequeued, executed, enqAtShutdown, late>>
    /\ UNCHANGED <<epVars, nodeVars>>

shutdown_clear ==
    /\ ~terminate_called
    /\ mpc = "sd_join"
    /\ mi >= Len(threads)
    /\ threads' = <<>>
    /\ mpc' = "done"
    /\ UNCHANGED <<tasks, tasks_mutex, quit_flag, num_threads, mi, wpc, wtask,
                   spc, stask, terminate_called, nextTask, enqueued, dequeued,
                   executed, enqAtShutdown, late>>
    /\ UNCHANGED <<epVars, nodeVars>>

\* --------------------------------------------- ThreadManager::run_task
\* the call of run_task(t) up to the lock_guard's acquisition
run_task_lock(s, t) ==
    /\ ~terminate_called
    /\ spc[s] = "idle"
    /\ tasks_mutex = NoThread
    /\ tasks_mutex' = SubmitThread(s)
    /\ spc' = [spc EXCEPT ![s] = "push"]
    /\ stask' = [stask EXCEPT ![s] = t]
    /\ nextTask' = t + 1
    /\ late' = IF mpc = "done" THEN late \cup {t} ELSE late
    /\ UNCHANGED <<threads, tasks, quit_flag, num_threads, mpc, mi, wpc, wtask,
                   terminate_called, enqueued, dequeued, executed,
                   enqAtShutdown>>
    /\ UNCHANGED <<epVars, nodeVars>>

\* tasks.push(task) and the end of the lock_guard's scope
run_task_push(s) ==
    /\ ~terminate_called
    /\ spc[s] = "push"
    /\ tasks' = Append(tasks, stask[s])
    /\ enqueued' = Append(enqueued, stask[s])
    /\ tasks_mutex' = NoThread
    /\ spc' = [spc EXCEPT ![s] = "notify"]
    /\ UNCHANGED <<threads, quit_flag, num_threads, mpc, mi, wpc, wtask, stask,
                   terminate_called, nextTask, dequeued, executed,
                   enqAtShutdown, late>>
    /\ UNCHANGED <<epVars, nodeVars>>

\* run_task without an effective notify: no waiting worker is woken
run_task_notify_lost(s) ==
    /\ ~terminate_called
    /\ spc[s] = "notify"
    /\ spc' = [spc EXCEPT ![s] = "idle"]
    /\ stask' = [stask EXCEPT ![s] = 0]
    /\ UNCHANGED <<threads, tasks, tasks_mutex, quit_flag, num_threads, mpc, mi,
                   wpc, wtask, terminate_called, nextTask, enqueued, dequeued,
                   executed, enqAtShutdown, late>>
    /\ UNCHANGED <<epVars, nodeVars>>

\* tasks_available.notify_one()
run_task_notify(s) ==
    /\ ~terminate_called
    /\ spc[s] = "notify"
    /\ wpc' \in NotifyOne
    /\ spc' = [spc EXCEPT ![s] = "idle"]
    /\ stask' = [stask EXCEPT ![s] = 0]
    /\ UNCHANGED <<threads, tasks, tasks_mutex, quit_flag, num_threads, mpc, mi,
                   wtask, terminate_called, nextTask, enqueued, dequeued,
                   executed, enqAtShutdown, late>>
    /\ UNCHANGED <<epVars, nodeVars>>

\* ----------------------------------------- ThreadManager::worker_thread
\* std::unique_lock lock(tasks_mutex), and the reacquisition after a wake-up
worker_lock(w) ==
    /\ ~terminate_called
    /\ wpc[w] = "lock"
    /\ tasks_mutex = NoThread
    /\ tasks_mutex' = WorkerThread(w)
    /\ wpc' = [wpc EXCEPT ![w] = "check"]
    /\ UNCHANGED <<threads, tasks, quit_flag, num_threads, mpc, mi, wtask, spc,
                   stask, terminate_called, nextTask, enqueued, dequeued,
                   executed, enqAtShutdown, late>>
    /\ UNCHANGED <<epVars, nodeVars>>

\* the wait's predicate, quit_flag || !tasks.empty()
WaitPredicate == quit_flag \/ tasks /= <<>>

\* tasks_available.wait(lock, pred) with pred false: unlock and block
worker_wait(w) ==
    /\ ~terminate_called
    /\ wpc[w] = "check"
    /\ ~WaitPredicate
    /\ tasks_mutex' = NoThread
    /\ wpc' = [wpc EXCEPT ![w] = "waiting"]
    /\ UNCHANGED <<threads, tasks, quit_flag, num_threads, mpc, mi, wtask, spc,
                   stask, terminate_called, nextTask, enqueued, dequeued,
                   executed, enqAtShutdown, late>>
    /\ UNCHANGED <<epVars, nodeVars>>

\* a worker that returns as soon as quit_flag is set, whatever the queue holds
ExitCondition_quit_only == quit_flag

\* if (quit_flag && tasks.empty()) return;
ExitCondition == quit_flag /\ tasks = <<>>

worker_exit(w) ==
    /\ ~terminate_called
    /\ wpc[w] = "check"
    /\ WaitPredicate
    /\ ExitCondition
    /\ tasks_mutex' = NoThread
    /\ wpc' = [wpc EXCEPT ![w] = "exited"]
    /\ UNCHANGED <<threads, tasks, quit_flag, num_threads, mpc, mi, wtask, spc,
                   stask, terminate_called, nextTask, enqueued, dequeued,
                   executed, enqAtShutdown, late>>
    /\ UNCHANGED <<epVars, nodeVars>>

\* a worker that takes the newest task instead of the oldest
worker_take_back(w) ==
    /\ ~terminate_called
    /\ wpc[w] = "check"
    /\ WaitPredicate
    /\ ~ExitCondition
    /\ wtask' = [wtask EXCEPT ![w] = tasks[Len(tasks)]]
    /\ dequeued' = Append(dequeued, tasks[Len(tasks)])
    /\ tasks' = SubSeq(tasks, 1, Len(tasks) - 1)
    /\ tasks_mutex' = NoThread
    /\ wpc' = [wpc EXCEPT ![w] = "run"]
    /\ UNCHANGED <<threads, quit_flag, num_threads, mpc, mi, spc, stask,
                   terminate_called, nextTask, enqueued, executed,
                   enqAtShutdown, late>>
    /\ UNCHANGED <<epVars, nodeVars>>

\* a worker that keeps its lock while the task runs
LockScopeEnd_held(w) == WorkerThread(w)

\* the closing brace of the block that holds the unique_lock, before task():
\* the mutex is free
LockScopeEnd(w) == NoThread

\* task = std::move(tasks.front()); tasks.pop(); and the end of the lock's scope
worker_take(w) ==
    /\ ~terminate_called
    /\ wpc[w] = "check"
    /\ WaitPredicate
    /\ ~ExitCondition
    /\ wtask' = [wtask EXCEPT ![w] = Head(tasks)]
    /\ dequeued' = Append(dequeued, Head(tasks))
    /\ tasks' = Tail(tasks)
    /\ tasks_mutex' = LockScopeEnd(w)
    /\ wpc' = [wpc EXCEPT ![w] = "run"]
    /\ UNCHANGED <<threads, quit_flag, num_threads, mpc, mi, spc, stask,
                   terminate_called, nextTask, enqueued, executed,
                   enqAtShutdown, late>>
    /\ UNCHANGED <<epVars, nodeVars>>

\* task() returns
worker_run(w) ==
    /\ ~terminate_called
    /\ wpc[w] = "run"
    /\ executed' = [executed EXCEPT ![wtask[w]] = @ + 1]
    /\ wtask' = [wtask EXCEPT ![w] = 0]
    /\ wpc' = [wpc EXCEPT ![w] = "lock"]
    /\ UNCHANGED <<threads, tasks, tasks_mutex, quit_flag, num_threads, mpc, mi,
                   spc, stask, terminate_called, nextTask, enqueued, dequeued,
                   enqAtShutdown, late>>
    /\ UNCHANGED <<epVars, nodeVars>>

\* task() throws: nothing in worker_thread catches, the exception leaves the
\* thread's function and std::terminate ends the process
worker_task_throws(w) ==
    /\ ~terminate_called
    /\ wpc[w] = "run"
    /\ executed' = [executed EXCEPT ![wtask[w]] = @ + 1]
    /\ wtask' = [wtask EXCEPT ![w] = 0]
    /\ terminate_called' = TRUE
    /\ UNCHANGED <<threads, tasks, tasks_mutex, quit_flag, num_threads, mpc, mi,
                   wpc, spc, stask, nextTask, enqueued, dequeued,
                   enqAtShutdown, late>>
    /\ UNCHANGED <<epVars, nodeVars>>

\* ---- a task that calls run_task of the pool that runs it
\* the running task's call of run_task up to the lock_guard's acquisition
task_run_task_lock(w) ==
    /\ ~terminate_called
    /\ wpc[w] = "run"
    /\ nextTask \in DOMAIN executed
    /\ tasks_mutex = NoThread
    /\ tasks_mutex' = WorkerThread(w)
    /\ nextTask' = nextTask + 1
    /\ wpc' = [wpc EXCEPT ![w] = "task_push"]
    /\ UNCHANGED <<threads, tasks, quit_flag, num_threads, mpc, mi, wtask, spc,
                   stask, terminate_called, enqueued, dequeued, executed,
                   enqAtShutdown, late>>
    /\ UNCHANGED <<epVars, nodeVars>>

\* tasks.push(task) and the end of the lock_guard's scope
task_run_task_push(w) ==
    /\ ~terminate_called
    /\ wpc[w] = "task_push"
    /\ tasks' = Append(tasks, nextTask - 1)
    /\ enqueued' = Append(enqueued, nextTask - 1)
    /\ tasks_mutex' = NoThread
    /\ wpc' = [wpc EXCEPT ![w] = "task_notify"]
    /\ UNCHANGED <<threads, quit_flag, num_threads, mpc, mi, wtask, spc, stask,
                   terminate_called, nextTask, dequeued, executed,
                   enqAtShutdown, late>>
    /\ UNCHANGED <<epVars, nodeVars>>

\* tasks_available.notify_one(), and run_task returns into the task
task_run_task_notify(w) ==
    /\ ~terminate_called
    /\ wpc[w] = "task_notify"
    /\ \E woken \in NotifyOne : wpc' = [woken EXCEPT ![w] = "run"]
    /\ UNCHANGED <<threads, tasks, tasks_mutex, quit_flag, num_threads, mpc, mi,
                   wtask, spc, stask, terminate_called, nextTask, enqueued,
                   dequeued, executed, enqAtShutdown, late>>
    /\ UNCHANGED <<epVars, nodeVars>>

\* a spurious wake-up of condition_variable::wait
spurious_wakeup(w) ==
    /\ ~terminate_called
    /\ wpc[w] = "waiting"
    /\ wpc' = [wpc EXCEPT ![w] = "lock"]
    /\ UNCHANGED <<threads, tasks, tasks_mutex, quit_flag, num_threads, mpc, mi,
                   wtask, spc, stask, terminate_called, nextTask, enqueued,
                   dequeued, executed, enqAtShutdown, late>>
    /\ UNCHANGED <<epVars, nodeVars>>

\* ============================================================ JackClient
Endpoints == DOMAIN obj

\* ---- the JACK server's calls: what each does to the server's side
jack_log(e, call) == [srv_calls EXCEPT ![e] = Append(@, call)]

\* jack_client_close(client)
jack_client_close(e) ==
    /\ srv_closes' = [srv_closes EXCEPT ![e] = @ + 1]
    /\ srv_state' = [srv_state EXCEPT ![e] = "closed"]

\* jack_port_get_buffer(port, nframes): the server notes a call made while it
\* is not inside a process cycle of the connection
jack_port_get_buffer(e) ==
    gb_outside' = [gb_outside EXCEPT ![e] = @ \/ ~srv_in_cycle[e]]

\* a constructor that closes the connection on a failure and then returns
\* normally instead of throwing
ctor_throw_swallowed(e) ==
    /\ obj' = [obj EXCEPT ![e] = "constructed"]
    /\ hpc' = "emplace_back"
    /\ cur' = cur

\* throw std::runtime_error(...) out of the constructor: main() has no handler,
\* so the exception leaves main and the process ends
ctor_throw(e) ==
    /\ obj' = [obj EXCEPT ![e] = "failed"]
    /\ hpc' = "terminated"
    /\ cur' = 0

\* ---- main: the "Add JackClient" button, up to the constructor's first line
add_jack_client(e) ==
    /\ hpc = "idle"
    /\ e = client_count
    /\ client_count' = client_count + 1
    /\ obj' = [obj EXCEPT ![e] = "constructing"]
    /\ cur' = e
    /\ hpc' = "open"
    /\ UNCHANGED <<jack_clients, client, num_inputs, num_outputs, input_ports,
                   output_ports, cbpc, cbi, srv_state, srv_calls, srv_closes,
                   srv_in_cycle, gb_outside, failure>>
    /\ UNCHANGED <<poolVars, nodeVars>>

\* ---- JackClient::JackClient
\* client = jack_client_open(...); if (!client) throw
ctor_open(e, h) ==
    /\ hpc = "open" /\ cur = e
    /\ srv_calls' = jack_log(e, "open")
    /\ client' = [client EXCEPT ![e] = h]
    /\ IF h = "null"
       THEN /\ failure' = [failure EXCEPT ![e] = "open"]
            /\ ctor_throw(e)
            /\ UNCHANGED srv_state
       ELSE /\ srv_state' = [srv_state EXCEPT ![e] = "open"]
            /\ hpc' = "set_process_callback"
            /\ UNCHANGED <<failure, obj, cur>>
    /\ UNCHANGED <<jack_clients, client_count, num_inputs, num_outputs,
                   input_ports, output_ports, cbpc, cbi, srv_closes,
                   srv_in_cycle, gb_outside>>
    /\ UNCHANGED <<poolVars, nodeVars>>

\* if (jack_set_process_callback(client, process, this) != 0) { close; throw }
ctor_set_process_callback(e, rc) ==
    /\ hpc = "set_process_callback" /\ cur = e
    /\ IF rc /= 0
       THEN /\ srv_calls' =
                [srv_calls EXCEPT ![e] = @ \o <<"set_process_callback", "close">>]
            /\ jack_client_close(e)
            /\ failure' = [failure EXCEPT ![e] = "callback"]
            /\ ctor_throw(e)
       ELSE /\ srv_calls' = jack_log(e, "set_process_callback")
            /\ hpc' = "on_shutdown"
            /\ UNCHANGED <<failure, obj, cur, srv_closes, srv_state>>
    /\ UNCHANGED <<jack_clients, client_count, client, num_inputs, num_outputs,
                   input_ports, output_ports, cbpc, cbi, srv_in_cycle,
                   gb_outside>>
    /\ UNCHANGED <<poolVars, nodeVars>>

\* jack_on_shutdown(client, jack_shutdown, this); then the node's port counts
\* and the two reserve calls
ctor_on_shutdown(e, nin, nout) ==
    /\ hpc = "on_shutdown" /\ cur = e
    /\ srv_calls' = jack_log(e, "on_shutdown")
    /\ num_inputs' = [num_inputs EXCEPT ![e] = nin]
    /\ num_outputs' = [num_outputs EXCEPT ![e] = nout]
    /\ hpc' = "ports"
    /\ UNCHANGED <<jack_clients, client_count, cur, obj, client, input_ports,
                   output_ports, cbpc, cbi, srv_state, srv_closes,
                   srv_in_cycle, gb_outside, failure>>
    /\ UNCHANGED <<poolVars, nodeVars>>

\* input_ports.push_back(jack_port_register(..., JackPortIsInput, 0)): the
\* result is stored unchecked
ctor_register_input(e, port) ==
    /\ hpc = "ports" /\ cur = e
    /\ Len(input_ports[e]) < num_inputs[e]
    /\ srv_calls' = jack_log(e, "port_register_input")
    /\ input_ports' = [input_ports EXCEPT ![e] = Append(@, port)]
    /\ failure' = IF port = "null" THEN [failure EXCEPT ![e] = "port"]
                                   ELSE failure
    /\ UNCHANGED <<jack_clients, client_count, hpc, cur, obj, client,
                   num_inputs, num_outputs, output_ports, cbpc, cbi, srv_state,
                   srv_closes, srv_in_cycle, gb_outside>>
    /\ UNCHANGED <<poolVars, nodeVars>>

\* output_ports.push_back(jack_port_register(..., JackPortIsOutput, 0))
ctor_register_output(e, port) ==
    /\ hpc = "ports" /\ cur = e
    /\ Len(input_ports[e]) >= num_inputs[e]
    /\ Len(output_ports[e]) < num_outputs[e]
    /\ srv_calls' = jack_log(e, "port_register_output")
    /\ output_ports' = [output_ports EXCEPT ![e] = Append(@, port)]
    /\ failure' = IF port = "null" THEN [failure EXCEPT ![e] = "port"]
                                   ELSE failure
    /\ UNCHANGED <<jack_clients, client_count, hpc, cur, obj, client,
                   num_inputs, num_outputs, input_ports, cbpc, cbi, srv_state,
                   srv_closes, srv_in_cycle, gb_outside>>
    /\ UNCHANGED <<poolVars, nodeVars>>

\* a constructor that activates before it registers its ports
PortLoopsDone_skipped(e) == TRUE

\* both registration loops have run to their end
PortLoopsDone(e) ==
    /\ Len(input_ports[e]) >= num_inputs[e]
    /\ Len(output_ports[e]) >= num_outputs[e]

\* if (jack_activate(client)) { close; throw }, else the constructor returns
ctor_activate(e, rc) ==
    /\ hpc = "ports" /\ cur = e
    /\ PortLoopsDone(e)
    /\ IF rc /= 0
       THEN /\ srv_calls' = [srv_calls EXCEPT ![e] = @ \o <<"activate", "close">>]
            /\ jack_client_close(e)
            /\ failure' = [failure EXCEPT ![e] = "activate"]
            /\ ctor_throw(e)
       ELSE /\ srv_calls' = jack_log(e, "activate")
            /\ srv_state' = [srv_state EXCEPT ![e] = "active"]
            /\ obj' = [obj EXCEPT ![e] = "constructed"]
            /\ hpc' = "emplace_back"
            /\ UNCHANGED <<failure, cur, srv_closes>>
    /\ UNCHANGED <<jack_clients, client_count, client, num_inputs, num_outputs,
                   input_ports, output_ports, cbpc, cbi, srv_in_cycle,
                   gb_outside>>
    /\ UNCHANGED <<poolVars, nodeVars>>

\* ---- main: jack_clients.emplace_back(std::make_unique<JackClient>(...))
emplace_back(e) ==
    /\ hpc = "emplace_back" /\ cur = e
    /\ jack_clients' = Append(jack_clients, e)
    /\ obj' = [obj EXCEPT ![e] = "alive"]
    /\ cur' = 0
    /\ hpc' = "idle"
    /\ UNCHANGED <<client_count, client, num_inputs, num_outputs, input_ports,
                   output_ports, cbpc, cbi, srv_state, srv_calls, srv_closes,
                   srv_in_cycle, gb_outside, failure>>
    /\ UNCHANGED <<poolVars, nodeVars>>

\* the control thread reads the member client, a plain pointer that
\* jack_shutdown stores to on the server's thread with no synchronisation:
\* the read yields the stored nullptr or the handle held before the store
client_read(e) ==
    IF srv_state[e] = "shutdown" THEN {client[e], "handle"} ELSE {client[e]}

\* ---- main: "Remove Last JackClient": jack_clients.pop_back() runs
\* JackClient::~JackClient: if (client) jack_client_close(client).
\* jack_client_close returns once the connection's process cycle has ended.
remove_last(e) ==
    /\ hpc = "idle"
    /\ jack_clients /= <<>>
    /\ e = jack_clients[Len(jack_clients)]
    /\ jack_clients' = SubSeq(jack_clients, 1, Len(jack_clients) - 1)
    /\ obj' = [obj EXCEPT ![e] = "destroyed"]
    /\ \E seen \in client_read(e) :
          IF seen /= "null"
          THEN /\ cbpc[e] = "idle"
               /\ srv_calls' = jack_log(e, "close")
               /\ jack_client_close(e)
          ELSE UNCHANGED <<srv_calls, srv_closes, srv_state>>
    /\ UNCHANGED <<client_count, hpc, cur, client, num_inputs, num_outputs,
                   input_ports, output_ports, cbpc, cbi, srv_in_cycle,
                   gb_outside, failure>>
    /\ UNCHANGED <<poolVars, nodeVars>>

\* ---- the server's audio thread
\* the server starts a cycle of an active connection and calls
\* JackClient::process, which calls process_audio
process(e) ==
    /\ hpc /= "terminated"
    /\ srv_state[e] = "active"
    /\ cbpc[e] = "idle"
    /\ srv_in_cycle' = [srv_in_cycle EXCEPT ![e] = TRUE]
    /\ cbpc' = [cbpc EXCEPT ![e] = "sample_rate"]
    /\ UNCHANGED <<jack_clients, client_count, hpc, cur, obj, client,
                   num_inputs, num_outputs, input_ports, output_ports, cbi,
                   srv_state, srv_calls, srv_closes, gb_outside, failure>>
    /\ UNCHANGED <<poolVars, nodeVars>>

\* JackClient::process_audio: jack_get_sample_rate(client) and the two vectors.
\* client is passed untested: once jack_shutdown has stored nullptr the call
\* goes through a null handle, which the library reports (returning) or
\* dereferences (ending the process).
process_audio_sample_rate(e) ==
    /\ hpc /= "terminated"
    /\ cbpc[e] = "sample_rate"
    /\ \/ /\ cbpc' = [cbpc EXCEPT ![e] = "get_buffer"]
          /\ cbi' = [cbi EXCEPT ![e] = 0]
          /\ UNCHANGED hpc
       \/ /\ client[e] = "null"
          /\ hpc' = "terminated"
          /\ UNCHANGED <<cbpc, cbi>>
    /\ UNCHANGED <<jack_clients, client_count, cur, obj, client, num_inputs,
                   num_outputs, input_ports, output_ports, srv_state,
                   srv_calls, srv_closes, srv_in_cycle, gb_outside, failure>>
    /\ UNCHANGED <<poolVars, nodeVars>>

\* JackClient::process_audio: the two loops, one jack_port_get_buffer per port
process_audio_get_buffer(e) ==
    /\ hpc /= "terminated"
    /\ cbpc[e] = "get_buffer"
    /\ cbi[e] < Len(input_ports[e]) + Len(output_ports[e])
    /\ jack_port_get_buffer(e)
    /\ cbi' = [cbi EXCEPT ![e] = @ + 1]
    /\ UNCHANGED <<jack_clients, client_count, hpc, cur, obj, client,
                   num_inputs, num_outputs, input_ports, output_ports, cbpc,
                   srv_state, srv_calls, srv_closes, srv_in_cycle, failure>>
    /\ UNCHANGED <<poolVars, nodeVars>>

\* the node writes outputs[0][i]: through the buffer of a port that was never
\* allocated this is a write through a null pointer
WritesThroughNull(e) ==
    /\ Len(output_ports[e]) >= 1
    /\ output_ports[e][1] = "null"

\* JackClient::process_audio: dsp->process_audio(...), and process returns 0
process_audio_dsp(e) ==
    /\ hpc /= "terminated"
    /\ cbpc[e] = "get_buffer"
    /\ cbi[e] >= Len(input_ports[e]) + Len(output_ports[e])
    /\ IF WritesThroughNull(e)
       THEN /\ hpc' = "terminated"
            /\ UNCHANGED <<cbpc, cbi, srv_in_cycle>>
       ELSE /\ cbpc' = [cbpc EXCEPT ![e] = "idle"]
            /\ cbi' = [cbi EXCEPT ![e] = 0]
            /\ srv_in_cycle' = [srv_in_cycle EXCEPT ![e] = FALSE]
            /\ UNCHANGED hpc
    /\ UNCHANGED <<jack_clients, client_count, cur, obj, client, num_inputs,
                   num_outputs, input_ports, output_ports, srv_state,
                   srv_calls, srv_closes, gb_outside, failure>>
    /\ UNCHANGED <<poolVars, nodeVars>>

\* JackClient::jack_shutdown: the server reports its shutdown
jack_shutdown(e) ==
    /\ hpc /= "terminated"
    /\ srv_state[e] = "active"
    /\ srv_state' = [srv_state EXCEPT ![e] = "shutdown"]
    /\ client' = [client EXCEPT ![e] = "null"]
    /\ UNCHANGED <<jack_clients, client_count, hpc, cur, obj, num_inputs,
                   num_outputs, input_ports, output_ports, cbpc, cbi, srv_calls,
                   srv_closes, srv_in_cycle, gb_outside, failure>>
    /\ UNCHANGED <<poolVars, nodeVars>>

\* ================================================================ SinOsc
\* what every node action leaves alone
Others == <<poolVars, epVars, regVars, facVars>>

\* the parameter names and values the control thread passes
ParamNames == {"frequency", "amplitude"}
NameInputs == ParamNames \cup {"detune"}
MaxValue == 2
FloatValues == {FloatUlp * k : k \in 1..MaxValue}
ValueInputs ==
    {<<"float", f>> : f \in FloatValues} \cup {<<"int", 1>>, <<"string", 0>>}

\* a std::get<float> that converts whatever the variant holds
set_throws_lenient(name, value) == FALSE

\* std::get<float>(value) of a variant holding another alternative throws
\* std::bad_variant_access; SinOsc::set_parameter reaches it for its two names
set_throws(name, value) == name \in ParamNames /\ value[1] /= "float"

\* a set_parameter whose last branch takes every other name for "frequency"
SinOsc_set_parameter_else(freq, ampl, v, name, value) ==
    <<IF name /= "amplitude"
      THEN [freq EXCEPT ![v] = ToDouble(value[2])] ELSE freq,
      IF name = "amplitude" THEN [ampl EXCEPT ![v] = value[2]] ELSE ampl>>

\* SinOsc::set_parameter of voice v, the value holding a float
SinOsc_set_parameter(freq, ampl, v, name, value) ==
    <<IF name = "frequency"
      THEN [freq EXCEPT ![v] = ToDouble(value[2])] ELSE freq,
      IF name = "amplitude" THEN [ampl EXCEPT ![v] = value[2]] ELSE ampl>>

\* a get_parameter that answers 0.0f for a name it does not know
SinOsc_get_parameter_zero(v, name) ==
    IF name = "frequency" THEN <<"float", ToFloat(frequency[v])>>
    ELSE IF name = "amplitude" THEN <<"float", amplitude[v]>>
    ELSE <<"float", 0>>

\* SinOsc::get_parameter of voice v: a float, or the throw of
\* std::runtime_error("Unknown parameter: ...")
SinOsc_get_parameter(v, name) ==
    IF name = "frequency" THEN <<"float", ToFloat(frequency[v])>>
    ELSE IF name = "amplitude" THEN <<"float", amplitude[v]>>
    ELSE <<"throw", 0>>

\* the buffer the running SinOsc::process_audio writes: outputs[0] is the
\* port's buffer, or, under PolyphonicDSP::process_audio, mixed_output.data()
WriteSample(buf, i, s) == [buf EXCEPT ![i] = s]

\* a fresh buffer of nframes samples: zeros (std::vector<float>(nframes, 0.0f),
\* and the silence the server hands out)
Zeros == [i \in 1..BufferFrames |-> 0]

\* std::vector<float>(n, 0.0f)
ZeroVector(n) == [i \in 1..n |-> 0]

\* a loop that runs while i <= nframes
LoopDone_late == ai > nframes

\* for (jack_nframes_t i = 0; i < nframes; ++i) has come to its end
LoopDone == ai >= nframes

\* the record of the run at a call of process_audio(n, ...) that finds the
\* phase p: it goes on, or starts anew after a parameter write or when it is
\* full
RunCall(p, n) ==
    IF ~run.on THEN run
    ELSE IF run.cut \/ Len(run.out) + n > MaxRun
         THEN [on |-> TRUE, cut |-> FALSE, start |-> p, out |-> <<>>]
         ELSE run

\* the record after the sample s was written
RunSample(s) ==
    IF run.on /\ ~run.cut THEN [run EXCEPT !.out = Append(@, s)] ELSE run

\* the record after a call of set_parameter
RunCut ==
    IF run.on THEN [on |-> TRUE, cut |-> TRUE, start |-> 0, out |-> <<>>]
    ELSE run

\* an oscillator that loads frequency anew for every sample
sample_increment_reloaded == (TWO_PI * frequency[av]) \div SampleRate

\* the increment the sample loop adds: the local computed before the loop
sample_increment == phase_increment

\* double phase_increment = TWO_PI * frequency.load() / sample_rate;
sinosc_load_frequency ==
    /\ cpc /= "terminated"
    /\ apc = "osc_frequency"
    /\ phase_increment' = (TWO_PI * frequency[av]) \div SampleRate
    /\ loads' = [loads EXCEPT ![av][1] = @ + 1]
    /\ apc' = "osc_amplitude"
    /\ UNCHANGED <<dsp_kind, voices, mutex_, frequency, amplitude, phase, av,
                   ai, amp, local_phase, mixed_output, outputs, cpc, cv, cname,
                   cvalue, cresult, voice_out, used, last_set>>
    /\ UNCHANGED <<allocs, nframes, run, Others>>

\* a buffer that starts from the increment instead of the stored phase
StartPhase_increment == phase_increment

\* a voice that starts from the first voice's phase
StartPhase_first == phase[1]

\* double local_phase = phase: the phase the last buffer of this voice left
StartPhase == phase[av]

\* float amp = amplitude.load(); double local_phase = phase;
sinosc_load_amplitude ==
    /\ cpc /= "terminated"
    /\ apc = "osc_amplitude"
    /\ amp' = amplitude[av]
    /\ loads' = [loads EXCEPT ![av][2] = @ + 1]
    /\ local_phase' = StartPhase
    /\ ai' = 0
    /\ apc' = "osc_loop"
    /\ UNCHANGED <<dsp_kind, voices, mutex_, frequency, amplitude, phase, av,
                   phase_increment, mixed_output, outputs, cpc, cv, cname,
                   cvalue, cresult, voice_out, used, last_set>>
    /\ UNCHANGED <<allocs, nframes, run, Others>>

\* one turn of the loop: outputs[0][i] = amp * std::sin(local_phase);
\* local_phase += phase_increment; if (local_phase >= TWO_PI) -= TWO_PI
sinosc_sample ==
    /\ cpc /= "terminated"
    /\ apc = "osc_loop"
    /\ ~LoopDone
    /\ local_phase \in -MaxPhase..MaxPhase
    /\ LET s == ToFloat(amp * Sin(local_phase))
           next == local_phase + sample_increment
       IN  /\ IF dsp_kind = "PolyphonicDSP"
              THEN /\ mixed_output' = WriteSample(mixed_output, ai + 1, s)
                   /\ UNCHANGED outputs
              ELSE /\ outputs' = WriteSample(outputs, ai + 1, s)
                   /\ UNCHANGED mixed_output
           /\ voice_out' = [voice_out EXCEPT ![av] = Append(@, s)]
           /\ used' = [used EXCEPT ![av] = Append(@, <<sample_increment, amp>>)]
           /\ local_phase' = IF next >= TWO_PI THEN next - TWO_PI ELSE next
           /\ run' = IF dsp_kind = "SinOsc" THEN RunSample(s) ELSE run
    /\ ai' = ai + 1
    /\ UNCHANGED <<dsp_kind, voices, mutex_, frequency, amplitude, phase, apc,
                   av, phase_increment, amp, cpc, cv, cname, cvalue, cresult,
                   loads, last_set>>
    /\ UNCHANGED <<allocs, nframes, Others>>

\* phase = local_phase; and SinOsc::process_audio returns to its caller
sinosc_store_phase ==
    /\ cpc /= "terminated"
    /\ apc = "osc_loop"
    /\ LoopDone
    /\ phase' = [phase EXCEPT ![av] = local_phase]
    /\ IF dsp_kind = "PolyphonicDSP"
       THEN apc' = "poly_loop" /\ av' = av + 1
       ELSE apc' = "idle" /\ av' = 0
    /\ UNCHANGED <<dsp_kind, voices, mutex_, frequency, amplitude, ai,
                   phase_increment, amp, local_phase, mixed_output, outputs,
                   cpc, cv, cname, cvalue, cresult, voice_out, used, loads,
                   last_set>>
    /\ UNCHANGED <<allocs, nframes, run, Others>>

\* ---- a node that is a SinOsc itself
\* JackClient::process_audio calls dsp->process_audio on the port's buffer
osc_process_audio(n) ==
    /\ cpc /= "terminated"
    /\ dsp_kind = "SinOsc"
    /\ apc = "idle"
    /\ nframes' = n
    /\ run' = RunCall(phase[1], n)
    /\ outputs' = Zeros
    /\ av' = 1
    /\ voice_out' = [v \in DOMAIN voice_out |-> <<>>]
    /\ used' = [v \in DOMAIN used |-> <<>>]
    /\ loads' = [v \in DOMAIN loads |-> <<0, 0>>]
    /\ apc' = "osc_frequency"
    /\ UNCHANGED <<dsp_kind, voices, mutex_, frequency, amplitude, phase, ai,
                   phase_increment, amp, local_phase, mixed_output, cpc, cv,
                   cname, cvalue, cresult, last_set>>
    /\ UNCHANGED <<allocs, Others>>

\* the control thread: dsp->set_parameter(name, value) on the SinOsc; a throw
\* leaves render_client_gui and main, which has no handler
osc_set_parameter(name, value) ==
    /\ dsp_kind = "SinOsc"
    /\ cpc = "idle"
    /\ cname' = name
    /\ cvalue' = value
    /\ cresult' = <<"none", 0>>
    /\ IF set_throws(name, value)
       THEN /\ cpc' = "terminated"
            /\ UNCHANGED <<frequency, amplitude, last_set>>
       ELSE /\ frequency' =
                  SinOsc_set_parameter(frequency, amplitude, 1, name, value)[1]
            /\ amplitude' =
                  SinOsc_set_parameter(frequency, amplitude, 1, name, value)[2]
            /\ last_set' = <<name, value>>
            /\ UNCHANGED cpc
    /\ run' = RunCut
    /\ UNCHANGED <<dsp_kind, voices, mutex_, phase, apc, av, ai,
                   phase_increment, amp, local_phase, mixed_output, outputs,
                   cv, voice_out, used, loads>>
    /\ UNCHANGED <<allocs, nframes, Others>>

\* a get_parameter that rewinds the oscillator
osc_get_parameter_rewind(name) ==
    /\ dsp_kind = "SinOsc"
    /\ cpc = "idle"
    /\ cname' = name
    /\ cresult' = SinOsc_get_parameter(1, name)
    /\ phase' = [phase EXCEPT ![1] = 0]
    /\ cpc' = IF SinOsc_get_parameter(1, name)[1] = "throw"
              THEN "terminated" ELSE cpc
    /\ UNCHANGED <<dsp_kind, voices, mutex_, frequency, amplitude, apc,
                   av, ai, phase_increment, amp, local_phase, mixed_output,
                   outputs, cv, cvalue, voice_out, used, loads, last_set>>
    /\ UNCHANGED <<allocs, nframes, run, Others>>

\* the control thread: dsp->get_parameter(name) on the SinOsc
osc_get_parameter(name) ==
    /\ dsp_kind = "SinOsc"
    /\ cpc = "idle"
    /\ cname' = name
    /\ cresult' = SinOsc_get_parameter(1, name)
    /\ cpc' = IF SinOsc_get_parameter(1, name)[1] = "throw"
              THEN "terminated" ELSE cpc
    /\ UNCHANGED <<dsp_kind, voices, mutex_, frequency, amplitude, phase, apc,
                   av, ai, phase_increment, amp, local_phase, mixed_output,
                   outputs, cv, cvalue, voice_out, used, loads, last_set>>
    /\ UNCHANGED <<allocs, nframes, run, Others>>

\* ================================================= SquareWave, SawWave
\* std::get<float>(value) is reached for "frequency" only
Wave_set_throws(name, value) == name = "frequency" /\ value[1] /= "float"

\* SquareWave::set_parameter, SawWave::set_parameter, the value holding a float
Wave_set_parameter(freq, name, value) ==
    IF name = "frequency" THEN [freq EXCEPT ![1] = ToDouble(value[2])] ELSE freq

\* SquareWave::get_parameter, SawWave::get_parameter: a float, or the throw of
\* std::runtime_error("Unknown parameter: ...")
Wave_get_parameter(name) ==
    IF name = "frequency" THEN <<"float", ToFloat(frequency[1])>>
    ELSE <<"throw", 0>>

\* outputs[0][i] = (phase < M_PI) ? 1.0f : -1.0f
SquareSample(p) == IF p < M_PI THEN One ELSE -One

\* outputs[0][i] = 2.0f * (phase / TWO_PI) - 1.0f
SawSample(p) == ToFloat((2 * One * p) \div TWO_PI - One)

\* phase += phase_increment; if (phase >= TWO_PI) phase -= TWO_PI
Advance(p, increment) ==
    IF p + increment >= TWO_PI THEN p + increment - TWO_PI ELSE p + increment

\* JackClient::process_audio calls dsp->process_audio on the port's buffer
wave_process_audio(n) ==
    /\ cpc /= "terminated"
    /\ dsp_kind \in WaveKinds
    /\ apc = "idle"
    /\ nframes' = n
    /\ run' = RunCall(phase[1], n)
    /\ outputs' = Zeros
    /\ av' = 1
    /\ voice_out' = [v \in DOMAIN voice_out |-> <<>>]
    /\ used' = [v \in DOMAIN used |-> <<>>]
    /\ loads' = [v \in DOMAIN loads |-> <<0, 0>>]
    /\ apc' = "wave_frequency"
    /\ UNCHANGED <<dsp_kind, voices, mutex_, frequency, amplitude, phase, ai,
                   phase_increment, amp, local_phase, mixed_output, cpc, cv,
                   cname, cvalue, cresult, last_set>>
    /\ UNCHANGED <<allocs, Others>>

\* double phase_increment = TWO_PI * frequency.load() / sample_rate;
wave_load_frequency ==
    /\ cpc /= "terminated"
    /\ apc = "wave_frequency"
    /\ phase_increment' = (TWO_PI * frequency[1]) \div SampleRate
    /\ loads' = [loads EXCEPT ![1][1] = @ + 1]
    /\ ai' = 0
    /\ apc' = "wave_loop"
    /\ UNCHANGED <<dsp_kind, voices, mutex_, frequency, amplitude, phase, av,
                   amp, local_phase, mixed_output, outputs, cpc, cv, cname,
                   cvalue, cresult, voice_out, used, last_set>>
    /\ UNCHANGED <<allocs, nframes, run, Others>>

\* one turn of the loop, on the member phase itself
wave_sample ==
    /\ cpc /= "terminated"
    /\ apc = "wave_loop"
    /\ ~LoopDone
    /\ phase[1] \in -MaxPhase..MaxPhase
    /\ LET s == IF dsp_kind = "SquareWave" THEN SquareSample(phase[1])
                ELSE SawSample(phase[1])
       IN  /\ outputs' = WriteSample(outputs, ai + 1, s)
           /\ voice_out' = [voice_out EXCEPT ![1] = Append(@, s)]
           /\ run' = RunSample(s)
    /\ used' = [used EXCEPT ![1] = Append(@, <<phase_increment, One>>)]
    /\ phase' = [phase EXCEPT ![1] = Advance(@, phase_increment)]
    /\ ai' = ai + 1
    /\ UNCHANGED <<dsp_kind, voices, mutex_, frequency, amplitude, apc, av,
                   phase_increment, amp, local_phase, mixed_output, cpc, cv,
                   cname, cvalue, cresult, loads, last_set>>
    /\ UNCHANGED <<allocs, nframes, Others>>

\* i has reached nframes: process_audio returns
wave_return ==
    /\ cpc /= "terminated"
    /\ apc = "wave_loop"
    /\ LoopDone
    /\ apc' = "idle"
    /\ av' = 0
    /\ UNCHANGED <<dsp_kind, voices, mutex_, frequency, amplitude, phase, ai,
                   phase_increment, amp, local_phase, mixed_output, outputs,
                   cpc, cv, cname, cvalue, cresult, voice_out, used, loads,
                   last_set>>
    /\ UNCHANGED <<allocs, nframes, run, Others>>

\* the control thread: dsp->set_parameter(name, value)
wave_set_parameter(name, value) ==
    /\ dsp_kind \in WaveKinds
    /\ cpc = "idle"
    /\ cname' = name
    /\ cvalue' = value
    /\ cresult' = <<"none", 0>>
    /\ IF Wave_set_throws(name, value)
       THEN /\ cpc' = "terminated"
            /\ UNCHANGED <<frequency, last_set>>
       ELSE /\ frequency' = Wave_set_parameter(frequency, name, value)
            /\ last_set' = <<name, value>>
            /\ UNCHANGED cpc
    /\ run' = RunCut
    /\ UNCHANGED <<dsp_kind, voices, mutex_, amplitude, phase, apc, av, ai,
                   phase_increment, amp, local_phase, mixed_output, outputs,
                   cv, voice_out, used, loads>>
    /\ UNCHANGED <<allocs, nframes, Others>>

\* the control thread: dsp->get_parameter(name)
wave_get_parameter(name) ==
    /\ dsp_kind \in WaveKinds
    /\ cpc = "idle"
    /\ cname' = name
    /\ cresult' = Wave_get_parameter(name)
    /\ cpc' = IF Wave_get_parameter(name)[1] = "throw"
              THEN "terminated" ELSE cpc
    /\ UNCHANGED <<dsp_kind, voices, mutex_, frequency, amplitude, phase, apc,
                   av, ai, phase_increment, amp, local_phase, mixed_output,
                   outputs, cv, cvalue, voice_out, used, loads, last_set>>
    /\ UNCHANGED <<allocs, nframes, run, Others>>

\* ========================================================= PolyphonicDSP
\* std::lock_guard<std::mutex> lock(mutex_) on the audio thread that does not
\* wait for the holder
MutexFree_unchecked == TRUE

\* std::lock_guard<std::mutex> lock(mutex_): the thread goes on once no thread
\* holds the mutex
MutexFree == mutex_ = NoThread

\* a fan-out loop that stops after the first voice
FanOutDone_first == cv > 1

\* for (auto &voice : voices) has passed the last voice
FanOutDone == cv > Len(voices)

\* std::vector<T> v(n, ...): one block from the heap unless n is 0
VectorAllocations(n) == IF n > 0 THEN 1 ELSE 0

\* PolyphonicDSP::process_audio: std::vector<float> mixed_output(nframes, 0.0f)
poly_process_audio(n) ==
    /\ cpc /= "terminated"
    /\ dsp_kind = "PolyphonicDSP"
    /\ apc = "idle"
    /\ nframes' = n
    /\ mixed_output' = ZeroVector(n)
    /\ allocs' = VectorAllocations(n)
    /\ outputs' = Zeros
    /\ voice_out' = [v \in DOMAIN voice_out |-> <<>>]
    /\ used' = [v \in DOMAIN used |-> <<>>]
    /\ loads' = [v \in DOMAIN loads |-> <<0, 0>>]
    /\ apc' = "poly_lock"
    /\ UNCHANGED <<dsp_kind, voices, mutex_, frequency, amplitude, phase, av,
                   ai, phase_increment, amp, local_phase, cpc, cv, cname,
                   cvalue, cresult, last_set>>
    /\ UNCHANGED <<run, Others>>

\* the audio thread's std::lock_guard<std::mutex> lock(mutex_)
poly_process_lock ==
    /\ cpc /= "terminated"
    /\ apc = "poly_lock"
    /\ MutexFree
    /\ mutex_' = AudioThread
    /\ av' = 1
    /\ apc' = "poly_loop"
    /\ UNCHANGED <<dsp_kind, voices, frequency, amplitude, phase, ai,
                   phase_increment, amp, local_phase, mixed_output, outputs,
                   cpc, cv, cname, cvalue, cresult, voice_out, used, loads,
                   last_set>>
    /\ UNCHANGED <<allocs, nframes, run, Others>>

\* for (auto &voice : voices): voice_outputs(1, mixed_output.data()) and the
\* call of voice->process_audio
poly_process_voice ==
    /\ cpc /= "terminated"
    /\ apc = "poly_loop"
    /\ av <= Len(voices)
    /\ allocs' = allocs + VectorAllocations(1)
    /\ apc' = "osc_frequency"
    /\ UNCHANGED <<dsp_kind, voices, mutex_, frequency, amplitude, phase, av,
                   ai, phase_increment, amp, local_phase, mixed_output,
                   outputs, cpc, cv, cname, cvalue, cresult, voice_out, used,
                   loads, last_set>>
    /\ UNCHANGED <<nframes, run, Others>>

\* the end of the block: the lock_guard releases mutex_
poly_process_unlock ==
    /\ cpc /= "terminated"
    /\ apc = "poly_loop"
    /\ av > Len(voices)
    /\ mutex_' = NoThread
    /\ apc' = "poly_copy"
    /\ UNCHANGED <<dsp_kind, voices, frequency, amplitude, phase, av, ai,
                   phase_increment, amp, local_phase, mixed_output, outputs,
                   cpc, cv, cname, cvalue, cresult, voice_out, used, loads,
                   last_set>>
    /\ UNCHANGED <<allocs, nframes, run, Others>>

\* for (i < nframes) outputs[0][i] = mixed_output[i]; and the return
poly_process_copy ==
    /\ cpc /= "terminated"
    /\ apc = "poly_copy"
    /\ outputs' = [i \in DOMAIN outputs |->
                       IF i <= nframes THEN mixed_output[i] ELSE outputs[i]]
    /\ apc' = "idle"
    /\ av' = 0
    /\ allocs' = 0
    /\ UNCHANGED <<dsp_kind, voices, mutex_, frequency, amplitude, phase, ai,
                   phase_increment, amp, local_phase, mixed_output, cpc, cv,
                   cname, cvalue, cresult, voice_out, used, loads, last_set>>
    /\ UNCHANGED <<nframes, run, Others>>

\* PolyphonicDSP::set_parameter: the control thread's lock_guard
poly_set_parameter(name, value) ==
    /\ dsp_kind = "PolyphonicDSP"
    /\ cpc = "idle"
    /\ mutex_ = NoThread
    /\ mutex_' = MainThread
    /\ cname' = name
    /\ cvalue' = value
    /\ cv' = 1
    /\ last_set' = <<>>
    /\ cresult' = <<"none", 0>>
    /\ cpc' = "set_loop"
    /\ UNCHANGED <<dsp_kind, voices, frequency, amplitude, phase, apc, av, ai,
                   phase_increment, amp, local_phase, mixed_output, outputs,
                   voice_out, used, loads>>
    /\ UNCHANGED <<allocs, nframes, run, Others>>

\* for (auto &voice : voices) voice->set_parameter(name, value); a throw
\* unwinds through the lock_guard and leaves main
poly_set_parameter_voice ==
    /\ cpc = "set_loop"
    /\ ~FanOutDone
    /\ IF set_throws(cname, cvalue)
       THEN /\ mutex_' = NoThread
            /\ cpc' = "terminated"
            /\ UNCHANGED <<frequency, amplitude, cv>>
       ELSE /\ frequency' = SinOsc_set_parameter(frequency, amplitude, cv,
                                                 cname, cvalue)[1]
            /\ amplitude' = SinOsc_set_parameter(frequency, amplitude, cv,
                                                 cname, cvalue)[2]
            /\ cv' = cv + 1
            /\ UNCHANGED <<mutex_, cpc>>
    /\ UNCHANGED <<dsp_kind, voices, phase, apc, av, ai, phase_increment, amp,
                   local_phase, mixed_output, outputs, cname, cvalue, cresult,
                   voice_out, used, loads, last_set>>
    /\ UNCHANGED <<allocs, nframes, run, Others>>

\* the loop is over: the lock_guard releases mutex_ and set_parameter returns
poly_set_parameter_return ==
    /\ cpc = "set_loop"
    /\ FanOutDone
    /\ mutex_' = NoThread
    /\ cpc' = "idle"
    /\ cv' = 0
    /\ last_set' = <<cname, cvalue>>
    /\ UNCHANGED <<dsp_kind, voices, frequency, amplitude, phase, apc, av, ai,
                   phase_increment, amp, local_phase, mixed_output, outputs,
                   cname, cvalue, cresult, voice_out, used, loads>>
    /\ UNCHANGED <<allocs, nframes, run, Others>>

\* a get_parameter that answers with the constructor's defaults
Poly_get_parameter_default(name) ==
    IF name = "frequency" THEN <<"float", DEFAULT_FREQUENCY>>
    ELSE IF name = "amplitude" THEN <<"float", DEFAULT_AMPLITUDE>>
    ELSE <<"throw", 0>>

\* return voices[0]->get_parameter(name)
Poly_get_parameter(name) == SinOsc_get_parameter(1, name)

\* PolyphonicDSP::get_parameter: under the lock, voices[0]->get_parameter(name)
poly_get_parameter(name) ==
    /\ dsp_kind = "PolyphonicDSP"
    /\ cpc = "idle"
    /\ mutex_ = NoThread
    /\ Len(voices) >= 1
    /\ cname' = name
    /\ cresult' = Poly_get_parameter(name)
    /\ cpc' = IF Poly_get_parameter(name)[1] = "throw"
              THEN "terminated" ELSE cpc
    /\ UNCHANGED <<dsp_kind, voices, mutex_, frequency, amplitude, phase, apc,
                   av, ai, phase_increment, amp, local_phase, mixed_output,
                   outputs, cv, cvalue, voice_out, used, loads, last_set>>
    /\ UNCHANGED <<allocs, nframes, run, Others>>

\* ============================================================ DSPFactory
\* the sequences that hold every element of S once
Orders(S) ==
    {s \in [1..Cardinality(S) -> S] :
        \A i, j \in 1..Cardinality(S) : i /= j => s[i] /= s[j]}

\* the results get_registered_dsps can come to
NameOrders == UNION {Orders(S) : S \in SUBSET {"SinOsc", "SquareWave"}}

\* the type names and constructor closures passed to the registry; every
\* closure is a std::make_unique<SinOsc>, which returns the object or throws
\* std::bad_alloc
TypeNames == {"SinOsc", "SquareWave"}
TypeInputs == TypeNames \cup {"DoesNotExist"}
Closures == {"make_a", "make_b"}
Outcomes == {"node", "throw"}
\* the register_dsp calls looked at
MaxRegistrations == 3

\* the node's variables the registry and the constructor leave alone
dspRest == <<dsp_kind, mutex_, apc, av, ai, phase_increment, amp, local_phase,
             mixed_output, outputs, cpc, cv, cname, cvalue, cresult,
             voice_out, used, loads, last_set, allocs, nframes, run>>

\* a registration that keeps the closure a name already has
Install_keep_first(map, name, creator) ==
    IF name \in DOMAIN map THEN map ELSE (name :> creator) @@ map

\* creators[name] = std::move(creator)
Install(map, name, creator) == (name :> creator) @@ map

\* a lookup that falls back to some registered closure
Find_first(name) ==
    IF name \in DOMAIN creators THEN creators[name]
    ELSE IF DOMAIN creators = {} THEN "end"
    ELSE creators[CHOOSE n \in DOMAIN creators : TRUE]

\* creators.find(name): the closure, or creators.end()
Find(name) ==
    IF name \in DOMAIN creators THEN creators[name] ELSE "end"

\* DSPFactory::create_dsp(name), the closure's outcome given: the node or the
\* exception it comes to, and the closures it invoked
DSPFactory_create_dsp(name, outcome) ==
    IF Find(name) = "end"
    THEN [result |-> <<"throw", "Unknown DSP type">>, invoked |-> <<>>]
    ELSE [result |-> IF outcome = "node" THEN <<"node", Find(name)>>
                     ELSE <<"throw", "bad_alloc">>,
          invoked |-> <<Find(name)>>]

\* DSPFactory::register_dsp(name, creator)
register_dsp(name, creator) ==
    /\ rpc = "idle"
    /\ Len(registered) < MaxRegistrations
    /\ creators' = Install(creators, name, creator)
    /\ registered' = Append(registered, <<name, creator>>)
    /\ created' = <<"none">>
    /\ last_invoked' = <<>>
    /\ dsp_names' = <<"none">>
    /\ UNCHANGED <<rpc, rname, rk, num_voices, poly_obj>>
    /\ UNCHANGED <<dspVars, poolVars, epVars, facVars>>

\* main, "Add JackClient": auto dsp = create_dsp(selected_dsp_type); an
\* exception leaves main, which has no handler
add_create_dsp(name, outcome) ==
    /\ rpc = "idle"
    /\ rname' = name
    /\ created' = DSPFactory_create_dsp(name, outcome).result
    /\ last_invoked' = DSPFactory_create_dsp(name, outcome).invoked
    /\ rpc' = IF DSPFactory_create_dsp(name, outcome).result[1] = "throw"
              THEN "terminated" ELSE "poly_ctor"
    /\ UNCHANGED <<creators, rk, num_voices, poly_obj, registered, dsp_names>>
    /\ UNCHANGED <<dspVars, poolVars, epVars, facVars>>

\* PolyphonicDSP::PolyphonicDSP, the member initialisers: voices(num_voices)
\* makes num_voices null pointers, or throws std::length_error for a negative
\* count
poly_ctor_begin(n) ==
    /\ rpc = "poly_ctor"
    /\ num_voices' = n
    /\ frequency' = <<>>
    /\ amplitude' = <<>>
    /\ phase' = <<>>
    /\ IF n < 0
       THEN /\ poly_obj' = "failed"
            /\ voices' = <<>>
            /\ rpc' = "terminated"
            /\ UNCHANGED rk
       ELSE /\ poly_obj' = "constructing"
            /\ voices' = [v \in 1..n |-> "null"]
            /\ rk' = 1
            /\ rpc' = "ctor_loop"
    /\ UNCHANGED <<creators, rname, created, last_invoked, registered,
                   dsp_names>>
    /\ UNCHANGED <<dspRest, poolVars, epVars, facVars>>

\* a constructor that catches the closure's exception and goes on to the next
\* voice
closure_failed_skipped ==
    /\ rk' = rk + 1
    /\ UNCHANGED <<poly_obj, voices, frequency, amplitude, phase, rpc>>

\* the closure's exception leaves the constructor: the members built so far
\* are destroyed, make_unique yields nothing, and the exception leaves main
closure_failed ==
    /\ poly_obj' = "failed"
    /\ voices' = <<>>
    /\ frequency' = <<>>
    /\ amplitude' = <<>>
    /\ phase' = <<>>
    /\ rpc' = "terminated"
    /\ UNCHANGED rk

\* for (auto &voice : voices) voice = this->create_dsp(); the closure calls
\* DSPFactory::create_dsp(dsp_name), and SinOsc::SinOsc initialises the voice
poly_ctor_voice(outcome) ==
    /\ rpc = "ctor_loop"
    /\ rk <= Len(voices)
    /\ created' = DSPFactory_create_dsp(rname, outcome).result
    /\ last_invoked' = DSPFactory_create_dsp(rname, outcome).invoked
    /\ IF DSPFactory_create_dsp(rname, outcome).result[1] = "throw"
       THEN closure_failed
       ELSE /\ voices' = [voices EXCEPT ![rk] = "SinOsc"]
            /\ frequency' = Append(frequency, ToDouble(DEFAULT_FREQUENCY))
            /\ amplitude' = Append(amplitude, DEFAULT_AMPLITUDE)
            /\ phase' = Append(phase, 0)
            /\ rk' = rk + 1
            /\ UNCHANGED <<poly_obj, rpc>>
    /\ UNCHANGED <<creators, rname, num_voices, registered, dsp_names>>
    /\ UNCHANGED <<dspRest, poolVars, epVars, facVars>>

\* the loop is over: the constructor returns and make_unique yields the node
poly_ctor_return ==
    /\ rpc = "ctor_loop"
    /\ rk > Len(voices)
    /\ poly_obj' = "constructed"
    /\ rpc' = "idle"
    /\ UNCHANGED <<creators, rname, rk, num_voices, created, last_invoked,
                   registered, dsp_names>>
    /\ UNCHANGED <<dspVars, poolVars, epVars, facVars>>

\* an enumeration that leaves out one of the keys
Enumerations_skip_one(map) ==
    UNION {Orders(DOMAIN map \ {k}) : k \in DOMAIN map}

\* for (auto &[key, _] : creators) dsp_names.push_back(key): every key of the
\* unordered_map once, in an order the container chooses
Enumerations(map) == Orders(DOMAIN map)

\* DSPFactory::get_registered_dsps, as main's combo box calls it
get_registered_dsps(names) ==
    /\ rpc = "idle"
    /\ names \in Enumerations(creators)
    /\ dsp_names' = <<"names", names>>
    /\ UNCHANGED <<creators, rpc, rname, rk, num_voices, poly_obj, created,
                   last_invoked, registered>>
    /\ UNCHANGED <<dspVars, poolVars, epVars, facVars>>

\* ---- the registry called from several threads: every member function
\* takes std::lock_guard<std::mutex> lock(mutex_) first and holds it until it
\* returns or throws
RegistryOps == {"register_dsp", "create_dsp", "get_registered_dsps"}

\* a lock that never waits
FactoryMutexFree_unchecked == TRUE

\* std::mutex::lock returns only while no thread holds the mutex
FactoryMutexFree == factory_mutex = NoThread

\* the threads between the lock_guard's construction and its destruction
InsideRegistry == {t \in DOMAIN rthr : rthr[t].pc /= "idle"}

\* the keys an enumeration has pushed so far
Pushed_names(t) == {rthr[t].out[i] : i \in 1..Len(rthr[t].out)}

\* a thread enters op(name, creator), of which get_registered_dsps takes no
\* argument and create_dsp the name only: lock_guard's constructor
factory_lock(t, op, name, creator) ==
    /\ rthr[t].pc = "idle"
    /\ op = "register_dsp" => Len(registered) < MaxRegistrations
    /\ FactoryMutexFree
    /\ factory_mutex' = RegistryThread(t)
    /\ rthr' = [rthr EXCEPT ![t] =
                   [pc |-> op, op |-> op,
                    name |-> IF op = "get_registered_dsps" THEN "" ELSE name,
                    creator |-> IF op = "register_dsp" THEN creator ELSE "",
                    out |-> <<>>, result |-> <<"none">>]]
    /\ UNCHANGED <<dspVars, regVars, poolVars, epVars>>

\* creators[name]: operator[] inserts an empty std::function under a name
\* the map does not hold
factory_register_insert(t) ==
    /\ rthr[t].pc = "register_dsp"
    /\ creators' = IF rthr[t].name \in DOMAIN creators THEN creators
                   ELSE (rthr[t].name :> "empty") @@ creators
    /\ rthr' = [rthr EXCEPT ![t].pc = "assign"]
    /\ UNCHANGED <<rpc, rname, rk, num_voices, poly_obj, created,
                   last_invoked, registered, dsp_names>>
    /\ UNCHANGED <<factory_mutex, dspVars, poolVars, epVars>>

\* ... = std::move(creator)
factory_register_assign(t) ==
    /\ rthr[t].pc = "assign"
    /\ creators' = Install(creators, rthr[t].name, rthr[t].creator)
    /\ registered' = Append(registered, <<rthr[t].name, rthr[t].creator>>)
    /\ rthr' = [rthr EXCEPT ![t].pc = "unlock"]
    /\ UNCHANGED <<rpc, rname, rk, num_voices, poly_obj, created,
                   last_invoked, dsp_names>>
    /\ UNCHANGED <<factory_mutex, dspVars, poolVars, epVars>>

\* the closures that call register_dsp, create_dsp or get_registered_dsps of
\* the registry that invokes them; each of the three begins with
\* std::lock_guard<std::mutex> lock(mutex_)
ReentrantClosures == {"reenter"}

\* a mutex that its owner can lock again
OwnerRelock_recursive == "acquired"

\* std::mutex::lock called by the thread that owns the mutex: undefined by the
\* standard; the build (clang++ on Linux, std::mutex over a default
\* pthread_mutex_t) waits for an unlock that only the waiting thread could make
OwnerRelock == "blocked"

\* create_dsp's find and call; calling an empty std::function throws
\* std::bad_function_call
factory_create(t, outcome) ==
    /\ rthr[t].pc = "create_dsp"
    /\ rthr' = IF Find(rthr[t].name) \in ReentrantClosures
                  /\ OwnerRelock = "blocked"
               THEN [rthr EXCEPT ![t].pc = "blocked"]
               ELSE [rthr EXCEPT
                   ![t].pc = "unlock",
                   ![t].result =
                       IF Find(rthr[t].name) = "empty"
                       THEN <<"throw", "bad_function_call">>
                       ELSE DSPFactory_create_dsp(rthr[t].name, outcome).result]
    /\ UNCHANGED <<factory_mutex, dspVars, regVars, poolVars, epVars>>

\* get_registered_dsps' loop, one key at a time
factory_enumerate_key(t, key) ==
    /\ rthr[t].pc = "get_registered_dsps"
    /\ key \in DOMAIN creators \ Pushed_names(t)
    /\ rthr' = [rthr EXCEPT ![t].out = Append(@, key)]
    /\ UNCHANGED <<factory_mutex, dspVars, regVars, poolVars, epVars>>

\* the loop has reached creators.end(): return dsp_names
factory_enumerate_end(t) ==
    /\ rthr[t].pc = "get_registered_dsps"
    /\ DOMAIN creators \ Pushed_names(t) = {}
    /\ rthr' = [rthr EXCEPT ![t].pc = "unlock",
                            ![t].result = <<"names", rthr[t].out>>]
    /\ UNCHANGED <<factory_mutex, dspVars, regVars, poolVars, epVars>>

\* lock_guard's destructor, on return and on a throw alike; the call is over
\* and its result is the caller's
factory_unlock(t) ==
    /\ rthr[t].pc = "unlock"
    /\ factory_mutex' = NoThread
    /\ rthr' = [rthr EXCEPT ![t] = IdleCall]
    /\ UNCHANGED <<dspVars, regVars, poolVars, epVars>>

\* ================================================ rendering, as a function
\* the sample an oscillator of the kind writes at phase p with amplitude a
Sample(kind, p, a) ==
    IF kind = "SquareWave" THEN SquareSample(p)
    ELSE IF kind = "SawWave" THEN SawSample(p)
    ELSE ToFloat(a * Sin(p))

\* process_audio(n, ...) of an oscillator of the kind that finds the phase p:
\* the n samples it writes and the phase it leaves, the increment and the
\* amplitude loaded once before the loop
RECURSIVE RenderLoop(_, _, _, _, _)
RenderLoop(kind, p, increment, a, n) ==
    IF n = 0 THEN [out |-> <<>>, phase |-> p]
    ELSE LET rest == RenderLoop(kind, Advance(p, increment), increment, a, n - 1)
         IN  [out |-> <<Sample(kind, p, a)>> \o rest.out, phase |-> rest.phase]

Render(kind, p, f, a, n) ==
    RenderLoop(kind, p, (TWO_PI * f) \div SampleRate, a, n)

\* ------------------------------------------------------------------ Next
HostStep ==
    \/ init_enter
    \/ init_spawn
    \/ init_return
    \/ shutdown_lock
    \/ shutdown_set_quit
    \/ shutdown_notify_all
    \/ shutdown_join
    \/ shutdown_clear

SubmitStep ==
    \/ \E s \in Submitters :
          nextTask \in DOMAIN executed /\ run_task_lock(s, nextTask)
    \/ \E s \in Submitters : run_task_push(s)
    \/ \E s \in Submitters : run_task_notify(s)

WorkerStep(w) ==
    \/ worker_lock(w)
    \/ worker_wait(w)
    \/ worker_exit(w)
    \/ worker_take(w)
    \/ worker_run(w)
    \/ worker_task_throws(w)

Next ==
    \/ HostStep
    \/ SubmitStep
    \/ \E w \in 1..MaxThreads : WorkerStep(w)
    \/ \E w \in 1..MaxThreads : spurious_wakeup(w)

\* the pool without spurious wake-ups
PoolNext ==
    \/ HostStep
    \/ SubmitStep
    \/ \E w \in 1..LiveThreads : WorkerStep(w)

Spec == Init /\ [][Next]_vars

PortResults == {"port", "null"}

ControlStep ==
    \/ \E e \in Endpoints : add_jack_client(e)
    \/ \E e \in Endpoints, h \in {"handle", "null"} : ctor_open(e, h)
    \/ \E e \in Endpoints, rc \in {0, 1} : ctor_set_process_callback(e, rc)
    \/ \E e \in Endpoints, nin \in 0..MaxPorts, nout \in 0..MaxPorts :
          ctor_on_shutdown(e, nin, nout)
    \/ \E e \in Endpoints, port \in PortResults : ctor_register_input(e, port)
    \/ \E e \in Endpoints, port \in PortResults : ctor_register_output(e, port)
    \/ \E e \in Endpoints, rc \in {0, 1} : ctor_activate(e, rc)
    \/ \E e \in Endpoints : emplace_back(e)
    \/ \E e \in Endpoints : remove_last(e)

AudioStep ==
    \/ \E e \in Endpoints : process(e)
    \/ \E e \in Endpoints : process_audio_sample_rate(e)
    \/ \E e \in Endpoints : process_audio_get_buffer(e)
    \/ \E e \in Endpoints : process_audio_dsp(e)
    \/ \E e \in Endpoints : jack_shutdown(e)

EndpointNext ==
    \/ ControlStep
    \/ AudioStep

\* the endpoints alone: the pool is not started
EndpointSpecInit == PoolInit(0, 0) /\ EndpointInit /\ NodeInit

EndpointSpec == EndpointSpecInit /\ [][EndpointNext]_vars

\* The pool under fair scheduling: a thread that can take a step of the function
\* it is in eventually takes it. Calling init, shutdown or run_task is the
\* host's choice and carries no fairness; spurious wake-ups are left out, so
\* that only a notify can end a wait. Every step of the pool changes the pool's
\* variables and nothing else.
PoolFairness ==
    /\ WF_poolVars(init_spawn \/ init_return)
    /\ WF_poolVars(shutdown_set_quit \/ shutdown_notify_all \/ shutdown_join
                  \/ shutdown_clear)
    /\ \A s \in Submitters : WF_poolVars(run_task_push(s) \/ run_task_notify(s))
    /\ \A w \in 1..LiveThreads : WF_poolVars(WorkerStep(w))

LiveInit == PoolInit(LiveThreads, LiveTasks) /\ EndpointInit /\ NodeInit

LiveSpec == LiveInit /\ [][PoolNext]_vars /\ PoolFairness

\* ---- the pool with tasks that submit tasks: the host submits the first task,
\* every later one is submitted by a task that is running
FirstTask == nextTask = 1

NestedSubmitStep ==
    \/ \E s \in Submitters : FirstTask /\ run_task_lock(s, nextTask)
    \/ \E s \in Submitters : run_task_push(s)
    \/ \E s \in Submitters : run_task_notify(s)

TaskStep(w) ==
    \/ task_run_task_lock(w)
    \/ task_run_task_push(w)
    \/ task_run_task_notify(w)

NestedNext ==
    \/ HostStep
    \/ NestedSubmitStep
    \/ \E w \in 1..LiveThreads : WorkerStep(w)
    \/ \E w \in 1..LiveThreads : TaskStep(w)

\* as PoolFairness; a task that has called run_task goes on to its return, but
\* whether a task calls run_task is the task's choice
NestedFairness ==
    /\ PoolFairness
    /\ \A w \in 1..LiveThreads :
           WF_poolVars(task_run_task_push(w) \/ task_run_task_notify(w))

NestedSpec == LiveInit /\ [][NestedNext]_vars /\ NestedFairness

\* ---- one SinOsc driven directly: the audio thread renders buffers while the
\* control thread sets and gets parameters
OscAudioStep ==
    \/ osc_process_audio(BufferFrames)
    \/ sinosc_load_frequency
    \/ sinosc_load_amplitude
    \/ sinosc_sample
    \/ sinosc_store_phase

OscControlStep ==
    \/ \E name \in NameInputs, value \in ValueInputs :
          osc_set_parameter(name, value)
    \/ \E name \in NameInputs : osc_get_parameter(name)

OscNext ==
    \/ OscAudioStep
    \/ OscControlStep

OscInit == PoolInit(0, 0) /\ EndpointInit /\ DspInit("SinOsc", 1) /\ RegInit

OscSpec == OscInit /\ [][OscNext]_vars

\* ---- one PolyphonicDSP of NumVoices SinOsc voices
PolyAudioStep ==
    \/ poly_process_audio(BufferFrames)
    \/ poly_process_lock
    \/ poly_process_voice
    \/ sinosc_load_frequency
    \/ sinosc_load_amplitude
    \/ sinosc_sample
    \/ sinosc_store_phase
    \/ poly_process_unlock
    \/ poly_process_copy

PolyControlStep ==
    \/ \E name \in NameInputs, value \in ValueInputs :
          poly_set_parameter(name, value)
    \/ poly_set_parameter_voice
    \/ poly_set_parameter_return
    \/ \E name \in NameInputs : poly_get_parameter(name)

PolyNext ==
    \/ PolyAudioStep
    \/ PolyControlStep

PolyInit ==
    /\ PoolInit(0, 0)
    /\ EndpointInit
    /\ DspInit("PolyphonicDSP", NumVoices)
    /\ RegInit

PolySpec == PolyInit /\ [][PolyNext]_vars

\* ---- the registry and the construction of PolyphonicDSP nodes from it
RegistryNext ==
    \/ \E name \in TypeNames, creator \in Closures : register_dsp(name, creator)
    \/ \E name \in TypeInputs, outcome \in Outcomes :
          add_create_dsp(name, outcome)
    \/ \E n \in -1..NumVoices : poly_ctor_begin(n)
    \/ \E outcome \in Outcomes : poly_ctor_voice(outcome)
    \/ poly_ctor_return
    \/ \E names \in NameOrders : get_registered_dsps(names)

RegistryInit == PoolInit(0, 0) /\ EndpointInit /\ DspInit("none", 0) /\ RegInit

RegistrySpec == RegistryInit /\ [][RegistryNext]_vars

\* get_parameter_names() of a node of the kind; a PolyphonicDSP returns its
\* first voice's, a SinOsc's
get_parameter_names(kind) ==
    IF kind \in WaveKinds THEN {"frequency"} ELSE ParamNames

\* get_num_inputs() and get_num_outputs() of a SinOsc, SquareWave or SawWave
get_num_inputs(kind) == 0
get_num_outputs(kind) == 1

\* PolyphonicDSP::get_parameter_names, get_num_inputs, get_num_outputs: each
\* returns voices[0]'s
Poly_get_parameter_names == get_parameter_names(voices[1])
Poly_get_num_inputs == get_num_inputs(voices[1])
Poly_get_num_outputs == get_num_outputs(voices[1])

\* what get_parameter(name) of the node returns; a PolyphonicDSP asks its first
\* voice
Node_get_parameter(name) ==
    IF dsp_kind \in WaveKinds THEN Wave_get_parameter(name)
    ELSE SinOsc_get_parameter(1, name)

\* a step of the control thread inside set_parameter
SetStep ==
    \/ \E name \in NameInputs, value \in ValueInputs :
          \/ osc_set_parameter(name, value)
          \/ wave_set_parameter(name, value)
          \/ poly_set_parameter(name, value)
    \/ poly_set_parameter_voice
    \/ poly_set_parameter_return

\* ---- one SquareWave or SawWave driven directly
WaveAudioStep ==
    \/ wave_process_audio(BufferFrames)
    \/ wave_load_frequency
    \/ wave_sample
    \/ wave_return

WaveControlStep ==
    \/ \E name \in NameInputs, value \in ValueInputs :
          wave_set_parameter(name, value)
    \/ \E name \in NameInputs : wave_get_parameter(name)

\* ---- a node of any kind: the audio thread renders buffers while the control
\* thread sets and gets parameters
NodeKinds == {"SinOsc", "SquareWave", "SawWave", "PolyphonicDSP"}

NodeNext ==
    \/ OscNext
    \/ PolyNext
    \/ WaveAudioStep
    \/ WaveControlStep

NodeSpecInit ==
    /\ PoolInit(0, 0)
    /\ EndpointInit
    /\ RegInit
    /\ \E kind \in NodeKinds :
          DspInit(kind, IF kind = "PolyphonicDSP" THEN NumVoices ELSE 1)

NodeSpec == NodeSpecInit /\ [][NodeNext]_vars

\* ---- one oscillator set to any float: frequencies above the sample rate and
\* negative values are floats like the others
WideValues == FloatValues \cup {SampleRate + FloatUlp, -FloatUlp}
WideValueInputs == {<<"float", f>> : f \in WideValues}

RangeControlStep ==
    \/ \E name \in ParamNames, value \in WideValueInputs :
          osc_set_parameter(name, value)
    \/ \E name \in ParamNames, value \in WideValueInputs :
          wave_set_parameter(name, value)

RangeNext ==
    \/ OscAudioStep
    \/ WaveAudioStep
    \/ RangeControlStep

RangeSpecInit ==
    /\ PoolInit(0, 0)
    /\ EndpointInit
    /\ RegInit
    /\ \E kind \in {"SinOsc"} \cup WaveKinds : DspInit(kind, 1)

RangeSpec == RangeSpecInit /\ [][RangeNext]_vars

\* ---- one oscillator rendering buffers of any frame count up to BufferFrames,
\* the record of the run switched on
Oscillators == {"SinOsc"} \cup WaveKinds
FrameCounts == 1..BufferFrames

RenderAudioStep ==
    \/ \E n \in FrameCounts : osc_process_audio(n)
    \/ sinosc_load_frequency
    \/ sinosc_load_amplitude
    \/ sinosc_sample
    \/ sinosc_store_phase
    \/ \E n \in FrameCounts : wave_process_audio(n)
    \/ wave_load_frequency
    \/ wave_sample
    \/ wave_return

RenderControlStep ==
    \/ \E name \in ParamNames, f \in FloatValues :
          osc_set_parameter(name, <<"float", f>>)
    \/ \E name \in ParamNames, f \in FloatValues :
          wave_set_parameter(name, <<"float", f>>)

RenderNext ==
    \/ RenderAudioStep
    \/ RenderControlStep

RenderInit ==
    /\ PoolInit(0, 0)
    /\ EndpointInit
    /\ RegInit
    /\ \E kind \in Oscillators : NodeFields(kind, 1)
    /\ nframes = 0
    /\ run = [NoRun EXCEPT !.on = TRUE]

RenderSpec == RenderInit /\ [][RenderNext]_vars

\* ---- the registry alone, RegThreads threads calling it
FactoryNext ==
    \/ \E t \in 1..RegThreads, op \in RegistryOps, name \in TypeInputs,
          creator \in Closures : factory_lock(t, op, name, creator)
    \/ \E t \in 1..RegThreads : factory_register_insert(t)
    \/ \E t \in 1..RegThreads : factory_register_assign(t)
    \/ \E t \in 1..RegThreads, outcome \in Outcomes : factory_create(t, outcome)
    \/ \E t \in 1..RegThreads, key \in TypeInputs : factory_enumerate_key(t, key)
    \/ \E t \in 1..RegThreads : factory_enumerate_end(t)
    \/ \E t \in 1..RegThreads : factory_unlock(t)

FactorySpec == RegistryInit /\ [][FactoryNext]_vars

\* ---- the registry with a constructor closure that calls back into it. A
\* thread inside a member function runs on until it returns: its steps are
\* weakly fair; when a thread calls the registry is the caller's choice
ReentryClosures == {"make_a"} \cup ReentrantClosures
ReentryNames == {"SinOsc", "DoesNotExist"}

InsideStep(t) ==
    \/ factory_register_insert(t)
    \/ factory_register_assign(t)
    \/ \E outcome \in Outcomes : factory_create(t, outcome)
    \/ \E key \in ReentryNames : factory_enumerate_key(t, key)
    \/ factory_enumerate_end(t)
    \/ factory_unlock(t)

ReentryNext ==
    \/ \E t \in 1..RegThreads, op \in RegistryOps, name \in ReentryNames,
          creator \in ReentryClosures : factory_lock(t, op, name, creator)
    \/ \E t \in 1..RegThreads : InsideStep(t)

ReentryFairness == \A t \in 1..RegThreads : WF_vars(InsideStep(t))

ReentrySpec == RegistryInit /\ [][ReentryNext]_vars /\ ReentryFairness

\* ---------------------------------------------------------------- claims
TaskIds == DOMAIN executed
InQueue(t) == \E i \in 1..Len(tasks) : tasks[i] = t
Copies(t) ==
    Cardinality({i \in 1..Len(tasks) : tasks[i] = t})
    + Cardinality({w \in Workers : wtask[w] = t})
    + executed[t]
Pushed == {enqueued[i] : i \in 1..Len(enqueued)}
PushedBeforeShutdown == {enqueued[i] : i \in 1..enqAtShutdown}
AllWorkersGone == \A w \in Workers : wpc[w] \in {"unborn", "exited"}

\* C1: with at least one worker, no task is invoked twice, every pushed task
\* is in exactly one place (the queue, a worker's hands, or done), and when
\* shutdown() has returned every task pushed before shutdown() took the lock
\* has been invoked exactly once.
C1_ExactlyOnce ==
    /\ \A t \in TaskIds : executed[t] <= 1
    /\ \A t \in Pushed : Copies(t) = 1
    /\ (mpc = "done" /\ num_threads >= 1)
          => \A t \in PushedBeforeShutdown : executed[t] = 1

C1_Witness ==
    /\ mpc = "done"
    /\ num_threads >= 2
    /\ enqAtShutdown >= 2
    /\ \A t \in PushedBeforeShutdown : executed[t] = 1

\* C2: when shutdown() has returned (a pool of at least one worker), every
\* worker has terminated and the task queue is empty.
C2_StopLeavesQueueEmpty ==
    (mpc = "done" /\ num_threads >= 1) => (AllWorkersGone /\ tasks = <<>>)

\* C3: while the pool is running with at least one worker, a task in the queue
\* is eventually invoked (or a failing task has ended the process).
C3_EventuallyExecuted ==
    \A t \in 1..LiveTasks :
        (InQueue(t) /\ mpc = "running" /\ num_threads >= 1)
            ~> (executed[t] >= 1 \/ terminate_called)

C3_Witness ==
    /\ mpc = "running"
    /\ ~terminate_called
    /\ \E t \in TaskIds : executed[t] = 1
    /\ \E t \in TaskIds : InQueue(t)
    /\ \E w \in Workers : wpc[w] = "waiting"

\* C4: tasks leave the queue in the order in which they entered it: the pops
\* so far are a prefix of the pushes.
C4_Fifo ==
    /\ Len(dequeued) <= Len(enqueued)
    /\ \A i \in 1..Len(dequeued) : dequeued[i] = enqueued[i]

C4_Witness ==
    /\ Len(dequeued) >= 3
    /\ \E v \in Workers, w \in Workers :
          v /= w /\ wpc[v] = "run" /\ wpc[w] = "run"

\* C5: after init has returned the pool has at least one worker thread, also
\* for init(0).
C5_AtLeastOneWorker ==
    mpc = "running" => Len(threads) >= 1

\* C6: a task that throws does not end the worker (nor the process): no
\* failure of a task leads to std::terminate.
C6_TaskFailureContained ==
    ~terminate_called

\* C7: a task whose run_task call was made after shutdown() returned (of a
\* pool that had workers) is not placed in the queue.
C7_SubmitAfterStopRejected ==
    num_threads >= 1 => \A t \in late : ~InQueue(t)

\* ---- JackClient
IsPrefix(a, b) == Len(a) <= Len(b) /\ \A i \in 1..Len(a) : a[i] = b[i]
Repeat(x, n) == [i \in 1..n |-> x]

\* the server calls of a construction, from jack_client_open to jack_activate
ExpectedCalls(e) ==
    <<"open", "set_process_callback", "on_shutdown">>
        \o Repeat("port_register_input", num_inputs[e])
        \o Repeat("port_register_output", num_outputs[e])
        \o <<"activate">>

\* the calls made, less the jack_client_close that ends them
WithoutClose(calls) ==
    IF calls /= <<>> /\ calls[Len(calls)] = "close"
    THEN SubSeq(calls, 1, Len(calls) - 1)
    ELSE calls

PortMissing(e) ==
    \/ \E i \in 1..Len(input_ports[e]) : input_ports[e][i] = "null"
    \/ \E i \in 1..Len(output_ports[e]) : output_ports[e][i] = "null"

InCollection(e) == \E i \in 1..Len(jack_clients) : jack_clients[i] = e

\* C8: an Endpoint's server calls come in the order open, set process
\* callback, on-shutdown, one port registration per input then per output,
\* activate; the process callback runs only on a connection whose activate
\* succeeded after all of these; and no get_buffer call reaches the server
\* outside a process cycle.
C8_LifecycleOrder ==
    \A e \in Endpoints :
        /\ IsPrefix(WithoutClose(srv_calls[e]), ExpectedCalls(e))
        /\ cbpc[e] /= "idle" =>
              /\ srv_state[e] \in {"active", "shutdown"}
              /\ WithoutClose(srv_calls[e]) = ExpectedCalls(e)
        /\ ~gb_outside[e]

C8_Witness ==
    \E e \in Endpoints :
        /\ num_inputs[e] >= 1 /\ num_outputs[e] >= 1
        /\ cbpc[e] = "get_buffer"
        /\ cbi[e] = num_inputs[e] + num_outputs[e]
        /\ srv_calls[e] = ExpectedCalls(e)

\* C9: an Endpoint one of whose ports the server failed to allocate never
\* becomes active.
C9_PortFailureFailsConstruction ==
    \A e \in Endpoints : PortMissing(e) => srv_state[e] /= "active"

\* C10: once the construction of an Endpoint that met a failure (open,
\* callback registration, port allocation or activate) has ended, the
\* connection, if one was opened, has been closed exactly once and the
\* Endpoint is not in the host's collection.
C10_FailureClosesOnce ==
    \A e \in Endpoints :
        (failure[e] /= "none" /\ obj[e] \in {"failed", "constructed", "alive"})
            => /\ srv_state[e] /= "none" => srv_closes[e] = 1
               /\ ~InCollection(e)

\* how many times call occurs in calls
RECURSIVE CallCount(_, _)
CallCount(calls, call) ==
    IF calls = <<>> THEN 0
    ELSE (IF Head(calls) = call THEN 1 ELSE 0) + CallCount(Tail(calls), call)

\* a step in which the process callback calls the server on the connection
CallbackCallsServer(e) ==
    \/ process_audio_sample_rate(e)
    \/ process_audio_get_buffer(e)

\* C11: once the server has delivered the shutdown notification to an
\* Endpoint, the Endpoint holds no server handle, no step of its process
\* callback calls jack_get_sample_rate or jack_port_get_buffer on the
\* connection, and the connection is not opened again.
C11_NoCallAfterShutdown ==
    [][\A e \in Endpoints :
          srv_state[e] = "shutdown" =>
              /\ client[e] = "null"
              /\ ~CallbackCallsServer(e)
              /\ CallCount(srv_calls'[e], "open") = 1]_vars

\* C12: jack_client_close is called at most once on a connection over the
\* Endpoint's lifetime and is the last call made on it; no get_buffer call
\* comes from outside a process cycle (so none from the destructor); and an
\* Endpoint destroyed while its connection is in the server-shutdown state
\* was never closed.
C12_CloseAtMostOnce ==
    \A e \in Endpoints :
        /\ srv_closes[e] <= 1
        /\ srv_closes[e] = CallCount(srv_calls[e], "close")
        /\ srv_closes[e] = 1 => srv_calls[e][Len(srv_calls[e])] = "close"
        /\ ~gb_outside[e]
        /\ (obj[e] = "destroyed" /\ srv_state[e] = "shutdown")
              => srv_closes[e] = 0

\* an Endpoint destroyed after the shutdown notification, and one whose
\* destruction closed the connection
C12_Witness ==
    /\ \E e \in Endpoints :
          /\ obj[e] = "destroyed"
          /\ srv_state[e] = "shutdown"
          /\ client[e] = "null"
          /\ srv_closes[e] = 0

\* ---- SinOsc
\* the increment a buffer that loaded the frequency f is rendered with
IncrementOf(f) == (TWO_PI * f) \div SampleRate

\* all entries of a sequence are the same
Uniform(s) == \A i, j \in 1..Len(s) : s[i] = s[j]

\* C13: in one buffer of an oscillator's process_audio, with set_parameter
\* running at any point beside it, frequency and amplitude are each loaded at
\* most once (exactly once by the time the sample loop runs), and every sample
\* of the buffer is computed with one phase increment and one amplitude: those
\* of the two loads.
C13_NoMidBufferTear ==
    \A v \in DOMAIN used :
        /\ loads[v][1] <= 1 /\ loads[v][2] <= 1
        /\ Uniform(used[v])
        /\ (apc = "osc_loop" /\ av = v) =>
              /\ loads[v] = <<1, 1>>
              /\ \A i \in 1..Len(used[v]) :
                    used[v][i] = <<phase_increment, amp>>

\* the loop has rendered a sample and still runs, and both parameters have
\* been set to other values since the buffer's loads
C13_Witness ==
    /\ dsp_kind = "SinOsc"
    /\ apc = "osc_loop"
    /\ ai >= 1 /\ ai < BufferFrames
    /\ IncrementOf(frequency[1]) /= phase_increment
    /\ amplitude[1] /= amp

\* ---- PolyphonicDSP
\* C14: the audio callback is never at a lock acquisition whose mutex a
\* control-thread operation (set_parameter, get_parameter,
\* get_parameter_names) holds, i.e. it never waits for the control thread.
C14_CallbackNeverWaits ==
    ~(apc = "poly_lock" /\ mutex_ = MainThread)

\* sample i of the buffer, summed over the voices 1..n
RECURSIVE VoiceSum(_, _)
VoiceSum(n, i) ==
    IF n = 0 THEN 0 ELSE voice_out[n][i] + VoiceSum(n - 1, i)

\* C15: when PolyphonicDSP::process_audio has returned, output sample i is the
\* sum over all voices of the sample i that voice rendered in this buffer,
\* for every i < nframes.
C15_OutputIsSumOfVoices ==
    (dsp_kind = "PolyphonicDSP" /\ apc = "idle" /\ outputs /= <<>>) =>
        \A i \in 1..BufferFrames : outputs[i] = VoiceSum(Len(voices), i)

\* C16: once set_parameter(name, v) on a PolyphonicDSP has returned, for a
\* supported name, get_parameter(name) on each of its voices yields v.
C16_FanOutReachesAllVoices ==
    (dsp_kind = "PolyphonicDSP" /\ last_set /= <<>>
        /\ last_set[1] \in ParamNames) =>
        \A v \in 1..Len(voices) :
            SinOsc_get_parameter(v, last_set[1]) = last_set[2]

\* set_parameter("frequency", 220 Hz) has returned on a node of several
\* voices that held 440 Hz
C16_Witness ==
    /\ dsp_kind = "PolyphonicDSP"
    /\ Len(voices) >= 2
    /\ last_set = <<"frequency", <<"float", 2>>>>
    /\ cpc = "idle"

\* C17: whenever set_parameter does not hold the node's mutex (so whenever
\* process_audio or get_parameter can look at the voices) all voices hold the
\* same frequency and the same amplitude, and the voices of a buffer are all
\* rendered with one increment and one amplitude.
C17_FanOutAtomic ==
    /\ mutex_ /= MainThread =>
          \A v, w \in 1..Len(voices) :
              /\ frequency[v] = frequency[w]
              /\ amplitude[v] = amplitude[w]
    /\ \A v, w \in 1..Len(voices) :
          (used[v] /= <<>> /\ used[w] /= <<>>) => used[v][1] = used[w][1]

\* set_parameter is between two voices, the first holding the new value and
\* the second the old one, while process_audio stands at its lock
C17_Witness ==
    /\ cpc = "set_loop"
    /\ cv = 2
    /\ frequency[1] /= frequency[2]
    /\ apc = "poly_lock"

\* ---- DSPFactory and PolyphonicDSP's constructor
\* C18: a PolyphonicDSP that has been constructed holds one constructed voice
\* for each of the num_voices asked for; a voice that is still null exists
\* only inside the running constructor; and a construction whose closure
\* failed at some voice has ended with the failure propagated and no node.
C18_AllOrNothing ==
    /\ poly_obj = "constructed" =>
          /\ Len(voices) = num_voices
          /\ \A v \in 1..Len(voices) : voices[v] = "SinOsc"
    /\ (\E v \in 1..Len(voices) : voices[v] = "null") =>
          (poly_obj = "constructing" /\ rpc = "ctor_loop")
    /\ poly_obj = "failed" => (rpc = "terminated" /\ voices = <<>>)

\* the closure failed at the second voice, the first one built
C18_Witness ==
    /\ poly_obj = "failed"
    /\ num_voices >= 2
    /\ rk = 2
    /\ created = <<"throw", "bad_alloc">>

\* the names registered so far
RegisteredNames == {registered[i][1] : i \in 1..Len(registered)}

\* the closure of the last register_dsp call for name among regs, if any
RECURSIVE LastRegistered(_, _)
LastRegistered(regs, name) ==
    IF regs = <<>> THEN "end"
    ELSE IF regs[Len(regs)][1] = name THEN regs[Len(regs)][2]
    ELSE LastRegistered(SubSeq(regs, 1, Len(regs) - 1), name)

\* C19: a create_dsp(name) for a name that was never registered comes to the
\* "Unknown DSP type" error, has invoked no closure and yields no node, and
\* the registry holds entries for the registered names only.
C19_UnknownTypeFails ==
    /\ (created /= <<"none">> /\ rname \notin RegisteredNames) =>
          /\ created = <<"throw", "Unknown DSP type">>
          /\ last_invoked = <<>>
          /\ poly_obj /= "constructing"
    /\ DOMAIN creators = RegisteredNames

\* create_dsp("DoesNotExist") on a registry that holds a type
C19_Witness ==
    /\ rname = "DoesNotExist"
    /\ creators /= <<>>
    /\ created = <<"throw", "Unknown DSP type">>

\* C20: after any sequence of register_dsp calls the registry maps every
\* name to the closure of the last call that registered it (a second
\* registration replaces the first and touches no other name), and a
\* create_dsp(name) invokes exactly that closure.
C20_LatestRegistrationWins ==
    /\ \A name \in TypeInputs : Find(name) = LastRegistered(registered, name)
    /\ last_invoked /= <<>> =>
          last_invoked = <<LastRegistered(registered, rname)>>

\* a name registered twice with different closures, another name in between,
\* and a create_dsp of the name that invoked the second closure
C20_Witness ==
    /\ Len(registered) = 3
    /\ registered[1][1] = registered[3][1]
    /\ registered[1][2] /= registered[3][2]
    /\ registered[2][1] /= registered[1][1]
    /\ rname = registered[3][1]
    /\ last_invoked = <<registered[3][2]>>

\* C21: what get_registered_dsps returned holds exactly the names registered
\* so far, each once, and create_dsp finds a closure under each of them
Elements(s) == {s[i] : i \in 1..Len(s)}
C21_EnumerationIsKeySet ==
    dsp_names[1] = "names" =>
        /\ Elements(dsp_names[2]) = RegisteredNames
        /\ Len(dsp_names[2]) = Cardinality(RegisteredNames)
        /\ \A name \in Elements(dsp_names[2]) :
               /\ Find(name) /= "end"
               /\ DSPFactory_create_dsp(name, "node").result[1] = "node"
C21_Witness ==
    /\ dsp_names[1] = "names"
    /\ Len(dsp_names[2]) = 2
    /\ Len(registered) = 3

\* C22: at most one thread is inside a member function of the registry, the
\* thread that holds the mutex; so no call sees another call's half-done
\* work: a finished create_dsp found what the map holds under its name and
\* never an empty closure, and a finished get_registered_dsps returned every
\* key of the map once
C22_RegistryCallsAreAtomic ==
    /\ Cardinality(InsideRegistry) <= 1
    /\ \A t \in InsideRegistry : factory_mutex = RegistryThread(t)
    /\ \A t \in DOMAIN rthr :
          rthr[t].pc = "unlock" =>
             /\ rthr[t].op = "create_dsp" =>
                   /\ rthr[t].result[2] /= "bad_function_call"
                   /\ rthr[t].result[1] = "node" =>
                          rthr[t].result[2] =
                              LastRegistered(registered, rthr[t].name)
                   /\ rthr[t].result[2] = "Unknown DSP type" <=>
                          rthr[t].name \notin RegisteredNames
             /\ rthr[t].op = "get_registered_dsps" =>
                   /\ Elements(rthr[t].out) = DOMAIN creators
                   /\ Len(rthr[t].out) = Cardinality(DOMAIN creators)
                   /\ DOMAIN creators = RegisteredNames
C22_Witness ==
    /\ rthr[1].pc = "unlock"
    /\ rthr[1].op = "get_registered_dsps"
    /\ Len(rthr[1].out) = 2
    /\ Len(registered) = 3
    /\ factory_mutex = RegistryThread(1)

\* C23: within an invocation of the process callback every buffer request is
\* for a port not yet asked for, the node's process_audio is called when
\* exactly one buffer per registered port has been obtained, and the sample
\* rate the invocation goes on with (and hands to the node) was asked of the
\* server through the live handle
PortCount(e) == Len(input_ports[e]) + Len(output_ports[e])
C23_CallbackContract ==
    [][\A e \in Endpoints :
          /\ process_audio_get_buffer(e) => cbi'[e] <= PortCount(e)
          /\ process_audio_dsp(e) => cbi[e] = PortCount(e)
          /\ (process_audio_sample_rate(e) /\ cbpc'[e] = "get_buffer") =>
                client[e] = "handle"]_vars

\* C24: the audio thread has made no heap allocation inside the process_audio
\* call it is in
C24_NoAllocationInCallback == allocs = 0

\* C25: after set_parameter(name, v) has returned for a name of the node's
\* get_parameter_names(), get_parameter(name) returns v until the next write:
\* it would return v now, the get_parameter that ran since returned v, and
\* whatever a get_parameter returns is a value that was stored whole
C25_ParameterRoundTrip ==
    /\ (last_set /= <<>> /\ cpc = "idle"
           /\ last_set[1] \in get_parameter_names(dsp_kind)) =>
          Node_get_parameter(last_set[1]) = last_set[2]
    /\ (cresult[1] = "float" /\ last_set /= <<>> /\ last_set[1] = cname) =>
          cresult = last_set[2]
    /\ cresult[1] = "float" =>
          cresult[2] \in FloatValues \cup {DEFAULT_FREQUENCY, DEFAULT_AMPLITUDE}
C25_Witness ==
    /\ dsp_kind = "SinOsc"
    /\ apc = "osc_loop"
    /\ cname = "frequency"
    /\ last_set = <<"frequency", <<"float", FloatUlp>>>>
    /\ cresult = <<"float", FloatUlp>>

\* C26: a get_parameter(name) for a name that is not among the node's
\* get_parameter_names() returns no value: it leaves by the exception
C26_UnknownGetThrows ==
    (cresult[1] /= "none" /\ cname \notin get_parameter_names(dsp_kind)) =>
        /\ cresult[1] = "throw"
        /\ cpc = "terminated"
C26_Witness ==
    /\ dsp_kind = "PolyphonicDSP"
    /\ cname = "detune"
    /\ cresult[1] = "throw"

\* C27: no step of a set_parameter(name, v) for a name that is not among the
\* node's get_parameter_names() changes the frequency, amplitude or phase of
\* the node or of any voice
C27_UnknownSetIsNoOp ==
    [][(SetStep /\ cname' \notin get_parameter_names(dsp_kind)) =>
          UNCHANGED <<frequency, amplitude, phase>>]_vars
C27_Witness ==
    /\ dsp_kind = "PolyphonicDSP"
    /\ last_set = <<"detune", <<"float", FloatUlp>>>>
    /\ apc = "osc_loop"

\* C28: the phase of every oscillator, and the running phase of the sample
\* loop, lies in [0, 2*pi)
InTurn(p) == 0 <= p /\ p < TWO_PI
C28_PhaseInRange ==
    /\ \A v \in DOMAIN phase : InTurn(phase[v])
    /\ apc = "osc_loop" => InTurn(local_phase)

\* C29: every sample a SquareWave wrote is +1 or -1, and every sample a
\* SawWave wrote lies in [-1, +1]
C29_SquareSawRange ==
    \A v \in DOMAIN voice_out : \A i \in 1..Len(voice_out[v]) :
        /\ dsp_kind = "SquareWave" => voice_out[v][i] \in {One, -One}
        /\ dsp_kind = "SawWave" =>
              -One <= voice_out[v][i] /\ voice_out[v][i] <= One

\* C30: the magnitude of every sample a SinOsc wrote is at most the amplitude
\* loaded for that buffer
Abs(x) == IF x < 0 THEN -x ELSE x
C30_SineAmplitudeBound ==
    dsp_kind = "SinOsc" =>
        \A v \in DOMAIN voice_out : \A i \in 1..Len(voice_out[v]) :
            Abs(voice_out[v][i]) <= used[v][i][2]

\* C31: the only steps that change a phase are the audio thread's inside
\* process_audio (the store at the end of SinOsc's loop, a turn of the
\* SquareWave/SawWave loop), so no step of set_parameter or get_parameter
\* does; and while the audio thread is inside a voice of a PolyphonicDSP it
\* holds the node's mutex, so no other thread is inside that voice
PhaseStep == sinosc_store_phase \/ wave_sample
InsideVoice == apc \in {"osc_frequency", "osc_amplitude", "osc_loop"}
C31_PhaseExclusive ==
    /\ [][phase' /= phase => PhaseStep]_vars
    /\ []((dsp_kind = "PolyphonicDSP" /\ InsideVoice) => mutex_ = AudioThread)
C31_Witness ==
    /\ dsp_kind = "PolyphonicDSP"
    /\ InsideVoice
    /\ av = 2
    /\ phase[1] /= 0
    /\ cresult[1] = "float"

\* C39: a set_parameter of a name the node knows with a value that holds an int
\* or a string changes no frequency, amplitude or phase and throws: on a SinOsc,
\* SquareWave or SawWave it ends the call at once, on a PolyphonicDSP it enters
\* the fan-out and throws at voice 1, before any voice was written
WrongTyped == cname' \in get_parameter_names(dsp_kind) /\ cvalue'[1] /= "float"
C39_WrongTypeThrows ==
    [][(SetStep /\ WrongTyped) =>
          /\ UNCHANGED <<frequency, amplitude, phase>>
          /\ IF dsp_kind = "PolyphonicDSP" /\ cpc = "idle"
             THEN cpc' = "set_loop" /\ cv' = 1
             ELSE /\ cpc' = "terminated"
                  /\ dsp_kind = "PolyphonicDSP" => cv = 1 /\ cv' = 1]_vars
C39_Witness ==
    /\ dsp_kind = "PolyphonicDSP"
    /\ cpc = "terminated"
    /\ cname = "amplitude"
    /\ cvalue = <<"string", 0>>
    /\ cv = 1
    /\ \A v \in 1..Len(voices) : frequency[v] = ToDouble(2 * FloatUlp)

\* C34: a PolyphonicDSP whose constructor has returned holds at least one
\* voice, whatever voice count it was given
C34_AtLeastOneVoice == poly_obj = "constructed" => Len(voices) >= 1

\* C33: what a PolyphonicDSP returns from get_parameter_names, get_num_inputs
\* and get_num_outputs is what each of its voices returns; the value its
\* get_parameter has returned is the value every voice holds, and outside a
\* fan-out of the control thread it returns for every name what every voice
\* returns
C33_PolyMirrorsVoices ==
    dsp_kind = "PolyphonicDSP" =>
        \A v \in 1..Len(voices) :
            /\ Poly_get_parameter_names = get_parameter_names(voices[v])
            /\ Poly_get_num_inputs = get_num_inputs(voices[v])
            /\ Poly_get_num_outputs = get_num_outputs(voices[v])
            /\ cresult[1] = "float" =>
                   cresult = SinOsc_get_parameter(v, cname)
            /\ mutex_ /= MainThread =>
                   \A name \in NameInputs :
                       Poly_get_parameter(name) = SinOsc_get_parameter(v, name)
C33_Witness ==
    /\ dsp_kind = "PolyphonicDSP"
    /\ Len(voices) >= 2
    /\ cname = "amplitude"
    /\ cresult = <<"float", 2 * FloatUlp>>
    /\ amplitude[2] = 2 * FloatUlp
    /\ apc = "osc_loop"

\* C35: whenever the control thread is not inside a fan-out and the audio thread
\* is not between two voices, all voices of a PolyphonicDSP hold the same
\* frequency, amplitude and phase, and the voices that have rendered the
\* current buffer have rendered the same samples
AtBoundary ==
    \/ mutex_ = NoThread
    \/ apc = "poly_loop" /\ av \in {1, Len(voices) + 1}
C35_VoicesInLockstep ==
    dsp_kind = "PolyphonicDSP" =>
        /\ AtBoundary =>
               \A v \in 1..Len(voices) :
                   /\ frequency[v] = frequency[1]
                   /\ amplitude[v] = amplitude[1]
                   /\ phase[v] = phase[1]
        /\ \A v \in 1..Len(voices) :
               (apc \in {"poly_loop", "poly_copy", "idle"} /\ (av = 0 \/ v < av))
                   => voice_out[v] = voice_out[1]
C35_Witness ==
    /\ dsp_kind = "PolyphonicDSP"
    /\ apc = "poly_copy"
    /\ frequency[1] = ToDouble(FloatUlp)
    /\ phase[1] /= 0
    /\ Len(voices) >= 2
    /\ Len(voice_out[2]) = BufferFrames
    /\ voice_out[2][1] /= voice_out[2][2]

\* C32: a SinOsc, SquareWave or SawWave reports 0 inputs and 1 output, and its
\* process_audio(nframes, ...) writes the samples 0..nframes-1 of outputs[0],
\* each once and in order, and leaves the rest of the buffer as it found it
Rendered == voice_out[1]
C32_WriteExtent ==
    dsp_kind \in Oscillators =>
        /\ get_num_inputs(dsp_kind) = 0
        /\ get_num_outputs(dsp_kind) = 1
        /\ apc \in {"osc_loop", "wave_loop"} =>
               /\ ai <= nframes
               /\ Len(Rendered) = ai
        /\ (apc = "idle" /\ nframes > 0) => Len(Rendered) = nframes
        /\ (apc \in {"osc_loop", "wave_loop"} \/ (apc = "idle" /\ nframes > 0)) =>
               \A i \in DOMAIN outputs :
                   outputs[i] = IF i <= Len(Rendered) THEN Rendered[i] ELSE 0
C32_Witness ==
    /\ dsp_kind = "SquareWave"
    /\ apc = "idle"
    /\ nframes = 1
    /\ BufferFrames > 1
    /\ outputs[1] = -One
    /\ outputs[2] = 0

\* C36: the buffers an oscillator renders one after the other with no
\* set_parameter in between hold, put together, the samples one buffer of their
\* total length holds, and leave the phase that buffer leaves
NodeAmplitude == IF dsp_kind \in WaveKinds THEN One ELSE amplitude[1]
C36_PhaseContinuity ==
    (run.on /\ ~run.cut /\ apc = "idle") =>
        [out |-> run.out, phase |-> phase[1]] =
            Render(dsp_kind, run.start, frequency[1], NodeAmplitude,
                   Len(run.out))
C36_Witness ==
    /\ run.on /\ ~run.cut
    /\ apc = "idle"
    /\ dsp_kind = "SawWave"
    /\ Len(run.out) = 3
    /\ nframes = 1
    /\ run.start /= 0
    /\ phase[1] /= run.start
    /\ run.out[3] /= run.out[1]

\* C37: create_dsp invokes the closure while it holds the registry's mutex: a
\* thread whose closure calls back into the registry stops there for good with
\* the mutex held, so no other call enters; every other call that has entered
\* the registry returns
Blocked(t) == rthr[t].pc = "blocked"
InsideTask(w) == wpc[w] \in {"run", "task_notify"}
SubmittedByTask(t) == t >= 2 /\ \E i \in 1..Len(enqueued) : enqueued[i] = t
C38_TasksRunUnlocked ==
    /\ [](\A w \in 1..LiveThreads :
             InsideTask(w) => tasks_mutex /= WorkerThread(w))
    /\ [](AllWorkersGone =>
             \A t \in 1..LiveTasks : SubmittedByTask(t) => executed[t] >= 1)
    /\ \A t \in 1..LiveTasks :
           SubmittedByTask(t) ~> (executed[t] >= 1 \/ terminate_called)
C38_Witness ==
    /\ AllWorkersGone
    /\ quit_flag
    /\ enqAtShutdown = 1
    /\ Len(enqueued) = 2
    /\ executed[2] = 1
    /\ ~terminate_called

====
